---------------------------- MODULE Spec2Model ----------------------------
(***************************************************************************)
(* A model of pkg-analyzer (src/src/index.ts): package discovery over the  *)
(* pnpm and the flat/nested node_modules layouts, classification,          *)
(* duplicate detection, the dependency tree and the unused-dependency      *)
(* report.                                                                 *)
(*                                                                         *)
(* Strings are sequences of tokens.  The characters the code searches for  *)
(* ("@", "+", "/", ".") are tokens of their own, every other token is a    *)
(* run of characters that contains none of them, so that startsWith,       *)
(* indexOf, lastIndexOf, substring and split act on a token sequence as    *)
(* they act on the string.                                                 *)
(***************************************************************************)
EXTENDS Integers, Sequences, FiniteSets, TLC

VARIABLES
  lockfiles,        \* lockfile names present at the project root
  projectManifest,  \* the project's package.json
  yarnIntegrity,    \* node_modules/.yarn-integrity exists
  pnpmExists,       \* node_modules/.pnpm exists
  pnpmDir,          \* listing of node_modules/.pnpm
  pnpmReadable,     \* readdirSync of node_modules/.pnpm succeeds
  nmDir,            \* node_modules: whether it exists, and its listing
  sources,          \* the project's own files, as the import scan sees them
  mode,             \* what analyze() did: "idle" before it ran
  options,          \* the options analyze() ran with
  packages,         \* PackageInfo[] returned by getPackagesFromNodeModules
  report,           \* the result of the selected mode
  removed           \* the import specifiers edited out of the sources so far

vars == <<lockfiles, projectManifest, yarnIntegrity, pnpmExists,
          pnpmDir, pnpmReadable, nmDir, sources, mode, options, packages,
          report, removed>>

fsVars == <<lockfiles, projectManifest, yarnIntegrity, pnpmExists,
            pnpmDir, pnpmReadable, nmDir>>

-----------------------------------------------------------------------------
(* String primitives of JavaScript, on token sequences; indices are 0-based *)

startsWith(s, p) == Len(s) >= Len(p) /\ SubSeq(s, 1, Len(p)) = p

\* s.substring(a, b)
substring(s, a, b) == SubSeq(s, a + 1, b)

\* s.indexOf(c, from): -1 when c does not occur at or after from
indexOf(s, c, from) ==
  LET lo == IF from < 0 THEN 0 ELSE from
      hits == {i \in lo..(Len(s) - 1) : s[i + 1] = c}
  IN IF hits = {} THEN -1 ELSE CHOOSE i \in hits : \A j \in hits : i <= j

\* s.lastIndexOf(c)
lastIndexOf(s, c) ==
  LET hits == {i \in 0..(Len(s) - 1) : s[i + 1] = c}
  IN IF hits = {} THEN -1 ELSE CHOOSE i \in hits : \A j \in hits : i >= j

\* the elements of a sequence
Range(s) == {s[i] : i \in 1..Len(s)}

RECURSIVE SumSeq(_)
SumSeq(s) == IF s = <<>> THEN 0 ELSE Head(s) + SumSeq(Tail(s))


-----------------------------------------------------------------------------
(* The file system, as the code reads it *)

\* a package.json: kind is "ok", "missing" (existsSync is false) or "invalid"
\* (JSON.parse throws); a version of <<>> is an absent (falsy) version
Manifest(kind, version, deps) ==
  [kind |-> kind, version |-> version, dependencies |-> deps]

NoManifest == Manifest("missing", <<>>, <<>>)

\* a node_modules directory: entries in readdir order; readable is FALSE when
\* readdirSync throws on it
NmDirOf(entries) == [exists |-> TRUE, readable |-> TRUE, entries |-> entries]

NoNmDir == [exists |-> FALSE, readable |-> TRUE, entries |-> <<>>]

\* an entry of a node_modules directory: a package directory with its manifest,
\* its recursive size and its nested node_modules; or a scope directory
\* (@scope) with the package directories below it
PkgEntry(name, manifest, size, nm) ==
  [name |-> name, isDir |-> TRUE, readable |-> TRUE, manifest |-> manifest,
   size |-> size, nm |-> nm, scoped |-> <<>>]

ScopeEntry(name, scoped) ==
  [name |-> name, isDir |-> TRUE, readable |-> TRUE, manifest |-> NoManifest,
   size |-> 0, nm |-> NoNmDir, scoped |-> scoped]

FileEntry(name) ==
  [name |-> name, isDir |-> FALSE, readable |-> TRUE, manifest |-> NoManifest,
   size |-> 0, nm |-> NoNmDir, scoped |-> <<>>]

\* an entry of node_modules/.pnpm: pkgName is the directory that exists under
\* <entry>/node_modules (<<>> when there is none), with its manifest and size
PnpmEntry(name, isDir, pkgName, manifest, size) ==
  [name |-> name, isDir |-> isDir, pkgName |-> pkgName, manifest |-> manifest,
   size |-> size]

\* the project's package.json with its four sections (Object.keys order)
ProjectManifest(kind, prod, dev, peer, optional) ==
  [kind |-> kind, dependencies |-> prod, devDependencies |-> dev,
   peerDependencies |-> peer, optionalDependencies |-> optional]

NoProjectManifest == ProjectManifest("missing", <<>>, <<>>, <<>>, <<>>)

\* the content of a package directory, for getDirSize: a directory is
\* [readable, entries], an entry a regular file with its size (statOk is FALSE
\* when statSync throws on it), a directory, or something else (a symbolic
\* link, a socket)
Dir(entries) == [readable |-> TRUE, entries |-> entries]

RegularFile(size) == [kind |-> "file", size |-> size, statOk |-> TRUE]

Subdir(dir) == [kind |-> "dir", dir |-> dir]

OtherEntry == [kind |-> "other"]

-----------------------------------------------------------------------------
(* getDirSize *)

\* getDirSize and its loop: the catch around the loop returns the size summed
\* so far when readdirSync or statSync throws
RECURSIVE getDirSize(_), getDirSizeEntries(_, _)
getDirSize(dirPath) ==
  IF ~dirPath.readable THEN 0
  ELSE getDirSizeEntries(dirPath.entries, 0)

getDirSizeEntries(entries, size) ==
  IF entries = <<>> THEN size
  ELSE LET entry == Head(entries)
       IN IF entry.kind = "dir"
            THEN getDirSizeEntries(Tail(entries), size + getDirSize(entry.dir))
          ELSE IF entry.kind = "file"
            THEN IF ~entry.statOk THEN size
                 ELSE getDirSizeEntries(Tail(entries), size + entry.size)
          ELSE getDirSizeEntries(Tail(entries), size)

-----------------------------------------------------------------------------
(* getProjectDeps, getPackageType, detectPackageManager, getPackageInfo *)

\* a JavaScript Set is kept as the sequence of its members in insertion order
has(set, x) == x \in Range(set)

getProjectDeps(pm) ==
  IF pm.kind # "ok"
    THEN [prod |-> <<>>, dev |-> <<>>, peer |-> <<>>, optional |-> <<>>]
    ELSE [prod |-> pm.dependencies, dev |-> pm.devDependencies,
          peer |-> pm.peerDependencies, optional |-> pm.optionalDependencies]

getPackageTypeDevFirst(name, deps) ==
  IF has(deps.dev, name) THEN "dev"
  ELSE IF has(deps.prod, name) THEN "prod"
  ELSE IF has(deps.peer, name) THEN "peer"
  ELSE IF has(deps.optional, name) THEN "optional"
  ELSE "transitive"

getPackageType(name, deps) ==
  IF has(deps.prod, name) THEN "prod"
  ELSE IF has(deps.dev, name) THEN "dev"
  ELSE IF has(deps.peer, name) THEN "peer"
  ELSE IF has(deps.optional, name) THEN "optional"
  ELSE "transitive"

detectPackageManagerMarkersFirst ==
  IF pnpmExists THEN "pnpm"
  ELSE IF yarnIntegrity THEN "yarn"
  ELSE IF "pnpm-lock.yaml" \in lockfiles THEN "pnpm"
  ELSE IF "yarn.lock" \in lockfiles THEN "yarn"
  ELSE "npm"

detectPackageManager ==
  IF "pnpm-lock.yaml" \in lockfiles THEN "pnpm"
  ELSE IF "yarn.lock" \in lockfiles THEN "yarn"
  ELSE IF "package-lock.json" \in lockfiles THEN "npm"
  ELSE IF pnpmExists THEN "pnpm"
  ELSE IF yarnIntegrity THEN "yarn"
  ELSE "npm"

unknown == <<"unknown">>

\* getPackageInfo: <<>> for null, <<info>> for a PackageInfo
getPackageInfoKeepsInvalid(manifest, size, name, deps) ==
  IF manifest.kind = "missing" THEN <<>>
  ELSE << [name |-> name,
           version |-> IF manifest.version = <<>> THEN unknown
                       ELSE manifest.version,
           size |-> size,
           type |-> getPackageType(name, deps)] >>

getPackageInfo(manifest, size, name, deps) ==
  IF manifest.kind # "ok" THEN <<>>
  ELSE << [name |-> name,
           version |-> IF manifest.version = <<>> THEN unknown
                       ELSE manifest.version,
           size |-> size,
           type |-> getPackageType(name, deps)] >>

-----------------------------------------------------------------------------
(* getPackagesFromNodeModules: the pnpm branch *)

\* the package name the discovery loop recovers from a .pnpm entry name:
\* <<>> when the entry is skipped (continue)
pnpmEntryNameFirstAt(dirName) ==
  IF startsWith(dirName, <<"@">>)
    THEN LET plusIndex == indexOf(dirName, "+", 0)
             atIndex == indexOf(dirName, "@", plusIndex)
         IN IF plusIndex = -1 THEN <<>>
            ELSE IF atIndex = -1 THEN <<>>
            ELSE substring(dirName, 0, plusIndex) \o <<"/">>
                   \o substring(dirName, plusIndex + 1, atIndex)
    ELSE LET atIndex == indexOf(dirName, "@", 0)
         IN IF atIndex <= 0 THEN <<>> ELSE substring(dirName, 0, atIndex)

pnpmEntryName(dirName) ==
  IF startsWith(dirName, <<"@">>)
    THEN LET plusIndex == indexOf(dirName, "+", 0)
             atIndex == indexOf(dirName, "@", plusIndex)
         IN IF plusIndex = -1 THEN <<>>
            ELSE IF atIndex = -1 THEN <<>>
            ELSE substring(dirName, 0, plusIndex) \o <<"/">>
                   \o substring(dirName, plusIndex + 1, atIndex)
    ELSE LET atIndex == lastIndexOf(dirName, "@")
         IN IF atIndex <= 0 THEN <<>> ELSE substring(dirName, 0, atIndex)

\* fs.existsSync(<pnpm>/<entry>/node_modules/<name>)
pnpmPkgExists(entry, name) == entry.isDir /\ entry.pkgName = name

\* packages.push(info): the pnpm loop keeps every info it gets
pnpmPush(pkgs, info) == pkgs \o info

RECURSIVE scanPnpm(_, _, _)
scanPnpm(entries, deps, pkgs) ==
  IF entries = <<>> THEN pkgs
  ELSE LET entry == Head(entries)
           name == pnpmEntryName(entry.name)
       IN IF ~entry.isDir \/ name = <<>> \/ ~pnpmPkgExists(entry, name)
            THEN scanPnpm(Tail(entries), deps, pkgs)
            ELSE scanPnpm(Tail(entries), deps,
                   pnpmPush(pkgs,
                     getPackageInfo(entry.manifest, entry.size, name, deps)))

-----------------------------------------------------------------------------
(* getPackagesFromNodeModules: the flat/nested branch *)

MaxNmDepth == 10

\* key: name@version
seenKey(info) == info.name \o <<"@">> \o info.version

seenHas(seen, key) == \E i \in 1..Len(seen) : seenKey(seen[i]) = key

\* if (info) { if (!seen.has(key)) seen.set(key, info) }; seen keeps
\* insertion order
seenAddLastWins(seen, info) ==
  IF info = <<>> THEN seen
  ELSE IF seenHas(seen, seenKey(info[1]))
    THEN [i \in 1..Len(seen) |->
            IF seenKey(seen[i]) = seenKey(info[1]) THEN info[1] ELSE seen[i]]
  ELSE seen \o info

seenAdd(seen, info) ==
  IF info = <<>> THEN seen
  ELSE IF seenHas(seen, seenKey(info[1])) THEN seen
  ELSE seen \o info

\* scanNodeModules and its two loops; the state threaded through is
\* [seen, threw]: threw is TRUE once a readdirSync has thrown, which nothing
\* in the walk catches
\* if (!fs.existsSync(nmPath) || depth > 10) return
scanStopsNoCap(nm, depth) == ~nm.exists

scanStops(nm, depth) == ~nm.exists \/ depth > MaxNmDepth

RECURSIVE scanNodeModules(_, _, _, _), scanEntries(_, _, _, _),
          scanScoped(_, _, _, _, _)
scanNodeModules(nm, depth, deps, st) ==
  IF st.threw THEN st
  ELSE IF scanStops(nm, depth) THEN st
  ELSE IF ~nm.readable THEN [st EXCEPT !.threw = TRUE]
  ELSE scanEntries(nm.entries, depth, deps, st)

scanEntries(entries, depth, deps, st) ==
  IF st.threw \/ entries = <<>> THEN st
  ELSE LET entry == Head(entries)
       IN IF ~entry.isDir \/ startsWith(entry.name, <<".">>)
            THEN scanEntries(Tail(entries), depth, deps, st)
          ELSE IF startsWith(entry.name, <<"@">>)
            THEN IF ~entry.readable THEN [st EXCEPT !.threw = TRUE]
                 ELSE scanEntries(Tail(entries), depth, deps,
                        scanScoped(entry.name, entry.scoped, depth, deps, st))
          ELSE LET info == getPackageInfo(entry.manifest, entry.size,
                                          entry.name, deps)
                   st1 == [st EXCEPT !.seen = seenAdd(st.seen, info)]
               IN scanEntries(Tail(entries), depth, deps,
                    scanNodeModules(entry.nm, depth + 1, deps, st1))

scanScoped(scope, scopedEntries, depth, deps, st) ==
  IF st.threw \/ scopedEntries = <<>> THEN st
  ELSE LET scopedEntry == Head(scopedEntries)
       IN IF ~scopedEntry.isDir
            THEN scanScoped(scope, Tail(scopedEntries), depth, deps, st)
          ELSE LET name == scope \o <<"/">> \o scopedEntry.name
                   info == getPackageInfo(scopedEntry.manifest,
                                          scopedEntry.size, name, deps)
                   st1 == [st EXCEPT !.seen = seenAdd(st.seen, info)]
               IN scanScoped(scope, Tail(scopedEntries), depth, deps,
                    scanNodeModules(scopedEntry.nm, depth + 1, deps, st1))

\* getPackagesFromNodeModules: status "ok" with the package list, "exit" for
\* process.exit(1), "throw" for an exception that leaves the function
getPackagesFromNodeModules(deps) ==
  IF ~nmDir.exists THEN [status |-> "exit", packages |-> <<>>]
  ELSE IF detectPackageManager = "pnpm"
    THEN IF ~pnpmExists THEN [status |-> "exit", packages |-> <<>>]
         ELSE IF ~pnpmReadable THEN [status |-> "throw", packages |-> <<>>]
         ELSE [status |-> "ok", packages |-> scanPnpm(pnpmDir, deps, <<>>)]
  ELSE LET st == scanNodeModules(nmDir, 0, deps,
                                 [seen |-> <<>>, threw |-> FALSE])
       IN IF st.threw THEN [status |-> "throw", packages |-> <<>>]
          ELSE [status |-> "ok", packages |-> st.seen]

-----------------------------------------------------------------------------
(* findDuplicates, and the stable sorts of Array.prototype.sort *)

\* Array.prototype.sort with a comparator (a, b) => key(b) - key(a), keys[i]
\* being the key of s[i]: a stable sort, descending by key
sortDesc(s, keys) ==
  LET pos(i) == 1 + Cardinality({j \in 1..Len(s) :
                       \/ keys[j] > keys[i]
                       \/ keys[j] = keys[i] /\ j < i})
  IN [p \in 1..Len(s) |-> s[CHOOSE i \in 1..Len(s) : pos(i) = p]]

\* sort((a, b) => b.size - a.size)
sortBySize(s) == sortDesc(s, [i \in 1..Len(s) |-> s[i].size])

\* sort((a, b) => b.totalSize - a.totalSize)
sortByTotalSize(s) == sortDesc(s, [i \in 1..Len(s) |-> s[i].totalSize])

\* the keys of byName in insertion order: the names of the list in order of
\* first occurrence
RECURSIVE namesInOrder(_, _)
namesInOrder(pkgs, acc) ==
  IF pkgs = <<>> THEN acc
  ELSE namesInOrder(Tail(pkgs),
         IF Head(pkgs).name \in Range(acc) THEN acc
         ELSE Append(acc, Head(pkgs).name))

\* byName.get(name): the list members with that name, in list order
byNameGet(pkgs, name) == SelectSeq(pkgs, LAMBDA p : p.name = name)

\* if (pkgs.length > 1)
isDuplicateOver2(pkgs) == Len(pkgs) > 2

isDuplicate(pkgs) == Len(pkgs) > 1

versionAndSize(p) == [version |-> p.version, size |-> p.size]

duplicateInfo(name, pkgs) ==
  [name |-> name,
   versions |-> [i \in 1..Len(pkgs) |-> versionAndSize(pkgs[i])],
   totalSize |-> SumSeq([i \in 1..Len(pkgs) |-> pkgs[i].size])]

RECURSIVE collectDuplicates(_, _, _)
collectDuplicates(names, pkgs, acc) ==
  IF names = <<>> THEN acc
  ELSE LET group == byNameGet(pkgs, Head(names))
       IN collectDuplicates(Tail(names), pkgs,
            IF isDuplicate(group)
              THEN Append(acc, duplicateInfo(Head(names), group))
              ELSE acc)

findDuplicates(pkgs) ==
  sortByTotalSize(collectDuplicates(namesInOrder(pkgs, <<>>), pkgs, <<>>))

\* d.versions.map(v => v.size).sort((a, b) => b - a), then slice(1) summed
wastedOfGroup(d) ==
  LET sizes == [i \in 1..Len(d.versions) |-> d.versions[i].size]
  IN SumSeq(Tail(sortDesc(sizes, sizes)))

\* dups.reduce((sum, d) => sum + ..., 0): over all of dups
wastedSize(dups) == SumSeq([i \in 1..Len(dups) |-> wastedOfGroup(dups[i])])

-----------------------------------------------------------------------------
(* getPackageDeps and buildTree *)

\* Object.keys(pkgJson.dependencies || {}), [] when the manifest is missing or
\* does not parse
getPackageDeps(manifest) ==
  IF manifest.kind # "ok" THEN <<>> ELSE manifest.dependencies

\* packageMap.get(name): a later list member replaces an earlier one of the
\* same name; <<>> when no member has the name
packageMapGet(pkgs, name) ==
  LET hits == {i \in 1..Len(pkgs) : pkgs[i].name = name}
  IN IF hits = {} THEN <<>>
     ELSE << pkgs[CHOOSE i \in hits : \A j \in hits : i >= j] >>

\* the package name findPkgPath recovers from a .pnpm entry name
findPkgPathEntryName(entry) ==
  IF startsWith(entry, <<"@">>)
    THEN LET plusIndex == indexOf(entry, "+", 0)
             atIndex == indexOf(entry, "@", plusIndex)
         IN IF plusIndex = -1 \/ atIndex = -1 THEN <<>>
            ELSE substring(entry, 0, plusIndex) \o <<"/">>
                   \o substring(entry, plusIndex + 1, atIndex)
    ELSE LET atIndex == lastIndexOf(entry, "@")
         IN IF atIndex <= 0 THEN <<>> ELSE substring(entry, 0, atIndex)

\* the entry of a directory listing with the given name: <<>> or <<entry>>
entryNamed(entries, name) ==
  LET hits == {i \in 1..Len(entries) : entries[i].name = name}
  IN IF hits = {} THEN <<>> ELSE << entries[CHOOSE i \in hits : TRUE] >>

\* fs.existsSync(path.join(nodeModulesPath, name)): the entry at that path,
\* one level down for a name of the form @scope/name
flatLookup(name) ==
  LET slash == indexOf(name, "/", 0)
  IN IF ~nmDir.exists THEN <<>>
     ELSE IF slash = -1 THEN entryNamed(nmDir.entries, name)
     ELSE LET scope == entryNamed(nmDir.entries, substring(name, 0, slash))
          IN IF scope = <<>> THEN <<>>
             ELSE entryNamed(scope[1].scoped,
                             substring(name, slash + 1, Len(name)))

\* const isPnpm = fs.existsSync(pnpmPath)
isPnpm == pnpmExists

\* findPkgPath: <<>> for null, else <<manifest>>, the package.json at the
\* path returned ("missing" when the path does not exist)
findPkgPath(name) ==
  IF isPnpm
    THEN LET hits == {i \in 1..Len(pnpmDir) :
                        LET pkgName == findPkgPathEntryName(pnpmDir[i].name)
                        IN pkgName # <<>> /\ pkgName = name}
         IN IF hits = {} THEN <<>>
            ELSE LET entry == pnpmDir[CHOOSE i \in hits : \A j \in hits : i <= j]
                 IN IF pnpmPkgExists(entry, name) THEN << entry.manifest >>
                    ELSE << NoManifest >>
    ELSE LET found == flatLookup(name)
         IN IF found = <<>> THEN <<>> ELSE << found[1].manifest >>

\* if (depth > maxDepth || visited.has(name)) return null
buildNodeStopsNoCycleCheck(name, depth, visited, maxDepth) == depth > maxDepth

buildNodeStopsOffByOne(name, depth, visited, maxDepth) ==
  depth > maxDepth + 1 \/ name \in visited

buildNodeStops(name, depth, visited, maxDepth) ==
  depth > maxDepth \/ name \in visited

\* buildNode(dep, depth + 1, new Set(visited)): the callee adds to a copy, so
\* the caller's set after the call is its own
visitedAfterChildShared(own, callee) == callee

visitedAfterChild(own, callee) == own

\* buildNode and its loop over deps.  The result is [node, visited]: node is
\* <<>> for null or <<TreeNode>>, visited is the set passed in as the callee
\* left it
RECURSIVE buildNode(_, _, _, _, _), buildChildren(_, _, _, _, _, _)
buildNode(name, depth, visited, maxDepth, pkgs) ==
  IF buildNodeStops(name, depth, visited, maxDepth)
    THEN [node |-> <<>>, visited |-> visited]
  ELSE LET pkg == packageMapGet(pkgs, name)
           pkgPath == findPkgPath(name)
       IN IF pkg = <<>> \/ pkgPath = <<>>
            THEN [node |-> <<>>, visited |-> visited]
          ELSE LET r == buildChildren(getPackageDeps(pkgPath[1]), depth,
                                      visited \cup {name}, maxDepth, pkgs, <<>>)
               IN [node |-> << [name |-> pkg[1].name,
                                version |-> pkg[1].version,
                                size |-> pkg[1].size,
                                children |-> sortBySize(r.children)] >>,
                   visited |-> r.visited]

buildChildren(deps, depth, visited, maxDepth, pkgs, children) ==
  IF deps = <<>> THEN [children |-> children, visited |-> visited]
  ELSE LET child == buildNode(Head(deps), depth + 1, visited, maxDepth, pkgs)
       IN buildChildren(Tail(deps), depth,
                        visitedAfterChild(visited, child.visited),
                        maxDepth, pkgs, children \o child.node)

RECURSIVE buildRoots(_, _, _, _)
buildRoots(directDeps, maxDepth, pkgs, roots) ==
  IF directDeps = <<>> THEN roots
  ELSE buildRoots(Tail(directDeps), maxDepth, pkgs,
         roots \o buildNode(Head(directDeps), 0, {}, maxDepth, pkgs).node)

\* the first buildNode that gets past its guard and finds its name in
\* packageMap calls findPkgPath, whose readdirSync of .pnpm nothing catches
findPkgPathThrows(names, pkgs, maxDepth) ==
  /\ isPnpm /\ ~pnpmReadable
  /\ \E i \in 1..Len(names) :
       /\ ~buildNodeStops(names[i], 0, {}, maxDepth)
       /\ packageMapGet(pkgs, names[i]) # <<>>

\* buildTree: packageName is <<>> for null (and for the empty string, which is
\* falsy too); status "throw" when JSON.parse of the project manifest throws
buildTree(packageName, pkgs, maxDepth) ==
  IF packageName # <<>>
    THEN IF findPkgPathThrows(<<packageName>>, pkgs, maxDepth)
           THEN [status |-> "throw", roots |-> <<>>]
           ELSE [status |-> "ok",
                 roots |-> buildNode(packageName, 0, {}, maxDepth, pkgs).node]
  ELSE IF projectManifest.kind = "missing"
    THEN [status |-> "ok", roots |-> <<>>]
  ELSE IF projectManifest.kind = "invalid"
    THEN [status |-> "throw", roots |-> <<>>]
  ELSE LET directDeps == projectManifest.dependencies
                           \o projectManifest.devDependencies
       IN IF findPkgPathThrows(directDeps, pkgs, maxDepth)
            THEN [status |-> "throw", roots |-> <<>>]
            ELSE [status |-> "ok",
                  roots |-> sortBySize(
                              buildRoots(directDeps, maxDepth, pkgs, <<>>))]

-----------------------------------------------------------------------------
(* scanImports *)

\* a directory of the project: entries in readdir order
SrcDir(entries) == [readable |-> TRUE, entries |-> entries]

\* a file of the project: specifiers are the quoted texts that follow
\* import ... from, import, or require( in its content, in order
SrcFile(name, specifiers) ==
  [name |-> name, kind |-> "file", readable |-> TRUE,
   specifiers |-> specifiers, dir |-> SrcDir(<<>>)]

SrcSubdir(name, dir) ==
  [name |-> name, kind |-> "dir", readable |-> TRUE, specifiers |-> <<>>,
   dir |-> dir]

sourceExtensions ==
  { <<".", "js">>, <<".", "jsx">>, <<".", "ts">>, <<".", "tsx">>,
    <<".", "mjs">>, <<".", "cjs">>, <<".", "vue">>, <<".", "svelte">> }

ignoreDirsNodeModulesOnly == { <<"node_modules">> }

ignoreDirs ==
  { <<"node_modules">>, <<".", "git">>, <<"dist">>, <<"build">>,
    <<"coverage">>, <<".", "next">>, <<".", "nuxt">> }

\* path.extname: from the last "." on, "" when there is none or when it is
\* the first character
extname(name) ==
  LET dot == lastIndexOf(name, ".")
  IN IF dot <= 0 THEN <<>> ELSE substring(name, dot, Len(name))

\* pkg.split('/')
RECURSIVE split(_, _)
split(s, sep) ==
  LET i == indexOf(s, sep, 0)
  IN IF i = -1 THEN << s >>
     ELSE << substring(s, 0, i) >> \o split(substring(s, i + 1, Len(s)), sep)

\* the regular expression's [^'"./] : a specifier is matched only when it is
\* not empty and its first character is neither "." nor "/"
matchesImportRegex(specifier) ==
  specifier # <<>> /\ specifier[1] \notin {".", "/"}

\* the name scanFile adds for a matched specifier
importedNameFirstPart(pkg) == split(pkg, "/")[1]

importedName(pkg) ==
  LET parts == split(pkg, "/")
  IN IF startsWith(pkg, <<"@">>) /\ Len(parts) >= 2
       THEN parts[1] \o <<"/">> \o parts[2]
       ELSE parts[1]

\* imports.add(x)
add(set, x) == IF has(set, x) THEN set ELSE Append(set, x)

RECURSIVE scanFile(_, _)
scanFile(specifiers, imports) ==
  IF specifiers = <<>> THEN imports
  ELSE scanFile(Tail(specifiers),
         IF matchesImportRegex(Head(specifiers))
           THEN add(imports, importedName(Head(specifiers)))
           ELSE imports)

RECURSIVE scanDir(_, _), scanDirEntries(_, _)
scanDir(dir, imports) ==
  IF ~dir.readable THEN imports ELSE scanDirEntries(dir.entries, imports)

scanDirEntries(entries, imports) ==
  IF entries = <<>> THEN imports
  ELSE LET entry == Head(entries)
       IN scanDirEntries(Tail(entries),
            IF entry.kind = "dir"
              THEN IF entry.name \notin ignoreDirs
                     THEN scanDir(entry.dir, imports) ELSE imports
            ELSE IF entry.kind = "file"
              THEN IF extname(entry.name) \in sourceExtensions /\ entry.readable
                     THEN scanFile(entry.specifiers, imports) ELSE imports
            ELSE imports)

scanImports == scanDir(sources, <<>>)

-----------------------------------------------------------------------------
(* findUnused *)

devToolPatterns ==
  << <<"typescript">>, <<"tsup">>, <<"esbuild">>, <<"webpack">>, <<"rollup">>,
     <<"vite">>, <<"parcel">>, <<"jest">>, <<"vite", "st">>, <<"mocha">>,
     <<"chai">>, <<"ava">>, <<"eslint">>, <<"prettier">>, <<"stylelint">>,
     <<"@", "types", "/">> >>

\* depName.startsWith(pattern) || depName === pattern
isDevToolExactOnly(depName) ==
  \E i \in 1..Len(devToolPatterns) : depName = devToolPatterns[i]

isDevTool(depName) ==
  \E i \in 1..Len(devToolPatterns) :
    startsWith(depName, devToolPatterns[i]) \/ depName = devToolPatterns[i]

\* packages.find(p => p.name === depName): the first, <<>> when none
find(pkgs, depName) ==
  LET hits == {i \in 1..Len(pkgs) : pkgs[i].name = depName}
  IN IF hits = {} THEN <<>>
     ELSE << pkgs[CHOOSE i \in hits : \A j \in hits : i <= j] >>

\* the record pushed for depName, when one is: none when the name was
\* imported or no package has it
unusedRecordIgnoringImports(depName, type, usedImports, pkgs) ==
  LET pkg == find(pkgs, depName)
  IN IF pkg = <<>> THEN <<>>
     ELSE << [name |-> depName, version |-> pkg[1].version,
              size |-> pkg[1].size, type |-> type] >>

unusedRecord(depName, type, usedImports, pkgs) ==
  LET pkg == find(pkgs, depName)
  IN IF has(usedImports, depName) \/ pkg = <<>> THEN <<>>
     ELSE << [name |-> depName, version |-> pkg[1].version,
              size |-> pkg[1].size, type |-> type] >>

RECURSIVE unusedProd(_, _, _, _)
unusedProd(prod, usedImports, pkgs, unused) ==
  IF prod = <<>> THEN unused
  ELSE unusedProd(Tail(prod), usedImports, pkgs,
         unused \o unusedRecord(Head(prod), "prod", usedImports, pkgs))

RECURSIVE unusedDev(_, _, _, _)
unusedDev(dev, usedImports, pkgs, unused) ==
  IF dev = <<>> THEN unused
  ELSE unusedDev(Tail(dev), usedImports, pkgs,
         IF isDevTool(Head(dev)) THEN unused
         ELSE unused \o unusedRecord(Head(dev), "dev", usedImports, pkgs))

findUnusedAlsoPeer(pkgs, projectDeps) ==
  LET usedImports == scanImports
  IN sortBySize(unusedDev(projectDeps.dev \o projectDeps.peer, usedImports, pkgs,
                  unusedProd(projectDeps.prod, usedImports, pkgs, <<>>)))

findUnused(pkgs, projectDeps) ==
  LET usedImports == scanImports
  IN sortBySize(unusedDev(projectDeps.dev, usedImports, pkgs,
                  unusedProd(projectDeps.prod, usedImports, pkgs, <<>>)))

-----------------------------------------------------------------------------
(* analyze *)

\* the tree option: FALSE, TRUE (null start package) or a package name
NoTree == [given |-> FALSE, name |-> <<>>]

TreeOption(name) == [given |-> TRUE, name |-> name]

DefaultTop == 10

DefaultDepth == 3

\* the filter option: <<>> when it is not given (or is the empty string, which
\* is falsy too)
NoFilter == <<>>

DefaultOptions ==
  [top |-> DefaultTop, type |-> "all", duplicates |-> FALSE, tree |-> NoTree,
   depth |-> DefaultDepth, unused |-> FALSE, filter |-> NoFilter,
   interactive |-> FALSE, json |-> FALSE]

NoReport == [kind |-> "none"]

\* dups.slice(0, top): a negative end counts from the end of the array
slice(s, from, to) ==
  LET end == IF to < 0 THEN (IF Len(s) + to < 0 THEN 0 ELSE Len(s) + to)
             ELSE IF to < Len(s) THEN to ELSE Len(s)
  IN SubSeq(s, from + 1, end)

\* packages.filter(p => p.type === type)
ofType(pkgs, type) == SelectSeq(pkgs, LAMBDA p : p.type = type)

\* filterPackages(packages, type)
filterPackages(pkgs, type) == IF type = "all" THEN pkgs ELSE ofType(pkgs, type)

\* String.prototype.toLowerCase, letter by letter
lowerCaseOf(c) ==
  CASE c = "A" -> "a" [] c = "B" -> "b" [] c = "C" -> "c" [] OTHER -> c

toLowerCase(s) == [i \in 1..Len(s) |-> lowerCaseOf(s[i])]

\* String.prototype.includes
includes(s, keyword) ==
  \E i \in 0..(Len(s) - Len(keyword)) : SubSeq(s, i + 1, i + Len(keyword)) = keyword

\* packages.filter(p => p.name.toLowerCase().includes(keyword))
matchingKeyword(pkgs, filter) ==
  LET keyword == toLowerCase(filter)
  IN SelectSeq(pkgs, LAMBDA p : includes(toLowerCase(p.name), keyword))

\* if (filter) { ...; if (packages.length === 0) { ...; return } }
noMatchReturns(pkgs, filter) == filter # NoFilter /\ Len(pkgs) = 0

\* the size report of the list left after the filters, with the default
\* sort = 'size': what the JSON output and the table with its summary show
shown(sorted, top) == slice(sorted, 0, top)

sizeReportOfShown(pkgs, top) ==
  LET sorted == shown(sortBySize(pkgs), top)
      sizes(s) == SumSeq([i \in 1..Len(s) |-> s[i].size])
  IN [kind |-> "sizes",
      total |-> sizes(sorted),
      count |-> Len(sorted),
      counts |-> [prod |-> Len(ofType(sorted, "prod")),
                  dev |-> Len(ofType(sorted, "dev")),
                  transitive |-> Len(ofType(sorted, "transitive"))],
      sizes |-> [prod |-> sizes(ofType(sorted, "prod")),
                 dev |-> sizes(ofType(sorted, "dev")),
                 transitive |-> sizes(ofType(sorted, "transitive"))],
      packages |-> sorted]

sizeReport(pkgs, top) ==
  LET sorted == sortBySize(pkgs)
      sizes(s) == SumSeq([i \in 1..Len(s) |-> s[i].size])
  IN [kind |-> "sizes",
      total |-> sizes(sorted),
      count |-> Len(sorted),
      counts |-> [prod |-> Len(ofType(sorted, "prod")),
                  dev |-> Len(ofType(sorted, "dev")),
                  transitive |-> Len(ofType(sorted, "transitive"))],
      sizes |-> [prod |-> sizes(ofType(sorted, "prod")),
                 dev |-> sizes(ofType(sorted, "dev")),
                 transitive |-> sizes(ofType(sorted, "transitive"))],
      packages |-> shown(sorted, top)]

\* the wasted space of duplicates mode, summed over dups
wastedOfShown(dups, top) == wastedSize(slice(dups, 0, top))

wastedOf(dups, top) == wastedSize(dups)

\* analyze(projectPath, options): [mode, packages, report].  mode names the
\* return taken: "nmNotFound", "interactive" (runInteractiveMode took over),
\* "exit" (process.exit(1) in discovery), "throw" (an uncaught exception),
\* "noPackages", "noMatch" (no package matches the keyword), or the mode that
\* reported
nodeModulesMissingUnchecked == FALSE

\* !fs.existsSync(nodeModulesPath), the first test of analyze
nodeModulesMissing == ~nmDir.exists

analyze(opts) ==
  IF nodeModulesMissing
    THEN [mode |-> "nmNotFound", packages |-> <<>>, report |-> NoReport]
  ELSE IF opts.interactive
    THEN [mode |-> "interactive", packages |-> <<>>, report |-> NoReport]
  ELSE LET deps == getProjectDeps(projectManifest)
           found == getPackagesFromNodeModules(deps)
           pkgs == found.packages
       IN IF found.status # "ok"
            THEN [mode |-> found.status, packages |-> <<>>, report |-> NoReport]
          ELSE IF Len(pkgs) = 0
            THEN [mode |-> "noPackages", packages |-> pkgs, report |-> NoReport]
          ELSE IF opts.unused
            THEN [mode |-> "unused", packages |-> pkgs,
                  report |-> [kind |-> "unused",
                              unused |-> findUnused(pkgs, deps)]]
          ELSE IF opts.tree.given
            THEN LET t == buildTree(opts.tree.name, pkgs, opts.depth)
                 IN IF t.status # "ok"
                      THEN [mode |-> t.status, packages |-> pkgs,
                            report |-> NoReport]
                      ELSE [mode |-> "tree", packages |-> pkgs,
                            report |-> [kind |-> "tree", tree |-> t.roots]]
          ELSE IF opts.duplicates
            THEN LET dups == findDuplicates(pkgs)
                 IN [mode |-> "duplicates", packages |-> pkgs,
                     report |-> [kind |-> "duplicates", duplicates |-> dups,
                                 shown |-> IF opts.json \/ Len(dups) = 0
                                             THEN <<>>
                                             ELSE slice(dups, 0, opts.top),
                                 summary |-> ~opts.json /\ Len(dups) > 0,
                                 wastedSize |-> IF opts.json \/ Len(dups) = 0
                                                  THEN 0
                                                  ELSE wastedOf(dups, opts.top)]]
          ELSE LET typed == filterPackages(pkgs, opts.type)
                   left == IF opts.filter # NoFilter
                             THEN matchingKeyword(typed, opts.filter)
                             ELSE typed
               IN IF noMatchReturns(left, opts.filter)
                    THEN [mode |-> "noMatch", packages |-> pkgs,
                          report |-> NoReport]
                    ELSE [mode |-> "sizes", packages |-> pkgs,
                          report |-> sizeReport(left, opts.top)]

\* one run of analyze with the given options: a process runs it once
Run(opts) ==
  LET r == analyze(opts)
  IN /\ mode = "idle"
     /\ mode' = r.mode
     /\ options' = opts
     /\ packages' = r.packages
     /\ report' = r.report
     /\ UNCHANGED <<fsVars, sources, removed>>

-----------------------------------------------------------------------------
(* Dependency trees: the projects and the runs of SpecTree *)

pkgA == <<"pkgA">>
pkgB == <<"pkgB">>
pkgC == <<"pkgC">>
pkgD == <<"pkgD">>
ghost == <<"ghost">>

v1 == <<"1.0.0">>
v2 == <<"2.0.0">>

\* the installed packages, in directory order; ghost is never installed
TreeNames == <<pkgA, pkgB, pkgC, pkgD>>

\* bounds of the tree projects: declared-dependency edges in all manifests
\* together, and the depth option
MaxEdges == 4

MaxTreeDepth == 2

TreeDepths == (0..MaxTreeDepth) \cup {5}

TreeSize(name) ==
  CASE name = pkgA -> 400 [] name = pkgB -> 200 [] name = pkgC -> 300
    [] OTHER -> 200

\* every assignment of dependency lists (Object.keys order, no name twice, no
\* package naming itself) to the installed packages with at most k edges in all
RECURSIVE DepGraphs(_)
DepGraphs(k) ==
  IF k = 0 THEN { [n \in Range(TreeNames) |-> <<>>] }
  ELSE LET smaller == DepGraphs(k - 1)
       IN smaller \cup
          { [g EXCEPT ![n] = Append(g[n], d)] :
              <<g, n, d>> \in { x \in smaller \X Range(TreeNames) \X Range(TreeNames) :
                                  x[3] \notin Range(x[1][x[2]]) \cup {x[2]} } }

TreeManifest(g, n) == Manifest("ok", v1, g[n])

FlatTreeDir(g) ==
  NmDirOf([i \in 1..Len(TreeNames) |->
             PkgEntry(TreeNames[i], TreeManifest(g, TreeNames[i]),
                      TreeSize(TreeNames[i]), NoNmDir)])

PnpmTreeDir(g) ==
  [i \in 1..Len(TreeNames) |->
     PnpmEntry(TreeNames[i] \o <<"@">> \o v1, TRUE, TreeNames[i],
               TreeManifest(g, TreeNames[i]), TreeSize(TreeNames[i]))]

TreeProjectManifest ==
  ProjectManifest("ok", <<pkgA, pkgB>>, <<pkgC>>, <<pkgD>>, <<>>)

InitTree ==
  /\ lockfiles = {}
  /\ projectManifest = TreeProjectManifest
  /\ yarnIntegrity = FALSE
  /\ \E g \in DepGraphs(MaxEdges), pnpm \in BOOLEAN :
       /\ pnpmExists = pnpm
       /\ pnpmReadable = TRUE
       /\ pnpmDir = IF pnpm THEN PnpmTreeDir(g) ELSE <<>>
       /\ nmDir = IF pnpm THEN NmDirOf(<<>>) ELSE FlatTreeDir(g)
  /\ sources = SrcDir(<<>>)
  /\ mode = "idle"
  /\ options = DefaultOptions
  /\ packages = <<>>
  /\ report = NoReport
  /\ removed = <<>>

\* pkg-analyzer --tree [package] --depth <n>
AnalyzeTree ==
  \E start \in {<<>>, pkgA, ghost}, depth \in TreeDepths :
    Run([DefaultOptions EXCEPT !.tree = TreeOption(start), !.depth = depth])

NextTree == AnalyzeTree

SpecTree == InitTree /\ [][NextTree]_vars

-----------------------------------------------------------------------------
(* Properties of the trees *)

\* the names along every root-to-leaf path of a tree
RECURSIVE PathsOf(_)
PathsOf(node) ==
  IF node.children = <<>> THEN { <<node.name>> }
  ELSE UNION { { <<node.name>> \o p : p \in PathsOf(node.children[i]) } :
               i \in 1..Len(node.children) }

\* every node of a tree, with the names on the path from the root to it
RECURSIVE NodesOf(_, _)
NodesOf(node, above) ==
  LET path == Append(above, node.name)
  IN { [node |-> node, path |-> path] } \cup
     UNION { NodesOf(node.children[i], path) : i \in 1..Len(node.children) }

NoRepeat(path) ==
  \A i, j \in 1..Len(path) : i # j => path[i] # path[j]

TreePaths == UNION { PathsOf(report.tree[i]) : i \in 1..Len(report.tree) }

TreeNodes == UNION { NodesOf(report.tree[i], <<>>) : i \in 1..Len(report.tree) }

\* what the manifest of the installed package of that name declares
Declares(name) ==
  IF findPkgPath(name) = <<>> THEN <<>>
  ELSE getPackageDeps(findPkgPath(name)[1])

\* the name is in the package index and its directory is found
Resolvable(name) ==
  packageMapGet(packages, name) # <<>> /\ findPkgPath(name) # <<>>

ChildNames(node) == { node.children[i].name : i \in 1..Len(node.children) }

\* the project of the scenario: pkgA and pkgB depend on each other
MutualCycleProject ==
  /\ Declares(pkgA) = <<pkgB>>
  /\ Declares(pkgB) = <<pkgA>>
  /\ Resolvable(pkgA) /\ Resolvable(pkgB)

TreeRanFor(start, depth) ==
  mode = "tree" /\ options.tree.name = start /\ options.depth = depth

\* C1: no root-to-leaf path of a tree returned by buildTree names a package
\* twice, whatever cycles the declared dependencies have; and for
\* pkgA <-> pkgB with maxDepth 5, buildTree("pkgA") is the single root pkgA
\* whose only child is pkgB, which has no children.
C1_NoRepeatOnPath ==
  mode = "tree" =>
    /\ \A p \in TreePaths : NoRepeat(p)
    /\ (MutualCycleProject /\ TreeRanFor(pkgA, 5)) =>
         /\ Len(report.tree) = 1
         /\ report.tree[1].name = pkgA
         /\ Len(report.tree[1].children) = 1
         /\ report.tree[1].children[1].name = pkgB
         /\ report.tree[1].children[1].children = <<>>

C1_Witness ==
  /\ MutualCycleProject
  /\ TreeRanFor(pkgA, 5)
  /\ Len(report.tree) = 1
  /\ ChildNames(report.tree[1]) = {pkgB}

\* C2: for every maxDepth >= 0 no root-to-leaf path of a tree returned by
\* buildTree has more than maxDepth + 1 nodes: a package reached at depth
\* maxDepth + 1 gets no node.
C2_DepthBound ==
  mode = "tree" => \A p \in TreePaths : Len(p) <= options.depth + 1

\* a node at depth maxDepth that declares a resolvable package which is not
\* on its path, and has no child for it
C2_Witness ==
  /\ mode = "tree"
  /\ \E n \in TreeNodes :
       /\ Len(n.path) = options.depth + 1
       /\ n.node.children = <<>>
       /\ \E d \in Range(Declares(n.node.name)) :
            Resolvable(d) /\ d \notin Range(n.path)

\* C3: the visited set is per path: when two sibling nodes both declare the
\* same resolvable package D, D is within maxDepth below both and on the path
\* of neither, D is a child of both; building one branch removes no node from
\* a later sibling branch.
C3_DiamondKept ==
  mode = "tree" =>
    \A n \in TreeNodes :
      \A i, j \in 1..Len(n.node.children) :
        LET a == n.node.children[i]
            b == n.node.children[j]
        IN i # j =>
             \A d \in Range(Declares(a.name)) \cap Range(Declares(b.name)) :
               ( /\ Resolvable(d)
                 /\ Len(n.path) + 1 <= options.depth
                 /\ d \notin Range(n.path) )
               => d \in ChildNames(a) /\ d \in ChildNames(b)

\* a diamond: pkgA with the children pkgB and pkgC, each with the child pkgD
C3_Witness ==
  /\ TreeRanFor(pkgA, 2)
  /\ Len(report.tree) = 1
  /\ ChildNames(report.tree[1]) = {pkgB, pkgC}
  /\ \A i \in 1..2 : ChildNames(report.tree[1].children[i]) = {pkgD}

-----------------------------------------------------------------------------
(* Package stores: the projects and the runs of SpecStore *)

a == <<"a">>
b == <<"b">>
scopeS == <<"@", "s">>
scopedB == <<"@", "s", "/", "b">>

\* bound of the store projects: entries in one directory listing
MaxStoreEntries == 2

\* every sequence of at most n members of universe in which no two have the
\* same name: the listings of a directory
RECURSIVE Listings(_, _)
Listings(universe, n) ==
  IF n = 0 THEN { <<>> }
  ELSE LET shorter == Listings(universe, n - 1)
       IN shorter \cup
          { Append(x[1], x[2]) :
              x \in { y \in shorter \X universe :
                        \A i \in 1..Len(y[1]) : y[1][i].name # y[2].name } }

\* the size of an installed copy, by where it is and what version it has
StoreSize(version, nested) ==
  (IF version = v2 THEN 2000 ELSE 1000) + (IF nested THEN 500 ELSE 0)

StoreManifests ==
  { Manifest("ok", v1, <<>>), Manifest("ok", v2, <<>>),
    Manifest("ok", <<>>, <<>>), Manifest("invalid", <<>>, <<>>) }

\* .pnpm entry names: name@version, @scope+name@version, both with a peer
\* suffix, and names the parsers skip
PnpmEntryNames ==
  { a \o <<"@">> \o v1, a \o <<"@">> \o v2,
    <<"@", "s", "+", "b", "@">> \o v1,
    <<"@", "s", "+", "b", "@">> \o v1 \o <<"_p", "@">> \o v1,
    a \o <<"@">> \o v1 \o <<"_p", "@">> \o v1,
    <<"@", "s">>, <<"lock", ".", "yaml">> }

\* the package directory a .pnpm entry of that name holds
PnpmRealName(dirName) == IF startsWith(dirName, <<"@">>) THEN scopedB ELSE a

PnpmEntries ==
  { PnpmEntry(n, TRUE, PnpmRealName(n), m, StoreSize(m.version, FALSE)) :
      n \in PnpmEntryNames, m \in StoreManifests }
  \cup { PnpmEntry(n, FALSE, <<>>, NoManifest, 0) : n \in PnpmEntryNames }
  \cup { PnpmEntry(n, TRUE, <<>>, NoManifest, 0) : n \in PnpmEntryNames }

\* flat entries: the packages a, b and @s/b, each with or without a nested
\* node_modules that holds one more copy of a or b
NestedDirs ==
  { NoNmDir } \cup
  { NmDirOf(<< PkgEntry(n, m, StoreSize(m.version, TRUE), NoNmDir) >>) :
      n \in {a, b}, m \in {Manifest("ok", v1, <<>>), Manifest("ok", v2, <<>>)} }

FlatPackages(names) ==
  { PkgEntry(n, m, StoreSize(m.version, FALSE), nm) :
      n \in names, m \in StoreManifests \ {Manifest("ok", <<>>, <<>>)},
      nm \in NestedDirs }

FlatEntries ==
  FlatPackages({a, b})
  \cup { ScopeEntry(scopeS, << e >>) : e \in FlatPackages({b}) }
  \cup { ScopeEntry(<<".", "bin">>, <<>>), FileEntry(<<"x">>) }

StoreProjectManifest == ProjectManifest("ok", <<a>>, <<b>>, <<>>, <<>>)

InitStore ==
  /\ projectManifest = StoreProjectManifest
  /\ yarnIntegrity = FALSE
  /\ \/ /\ lockfiles \in { {}, {"pnpm-lock.yaml"} }
        /\ pnpmExists = TRUE
        /\ pnpmReadable = TRUE
        /\ pnpmDir \in Listings(PnpmEntries, MaxStoreEntries)
        /\ nmDir = NmDirOf(<<>>)
     \/ /\ lockfiles \in { {}, {"yarn.lock"}, {"package-lock.json"} }
        /\ pnpmExists = FALSE
        /\ pnpmReadable = TRUE
        /\ pnpmDir = <<>>
        /\ nmDir \in { NmDirOf(l) : l \in Listings(FlatEntries, MaxStoreEntries) }
  /\ sources = SrcDir(<<>>)
  /\ mode = "idle"
  /\ options = DefaultOptions
  /\ packages = <<>>
  /\ report = NoReport
  /\ removed = <<>>

\* pkg-analyzer, with no option
AnalyzeSizes == Run(DefaultOptions)

NextStore == AnalyzeSizes

SpecStore == InitStore /\ [][NextStore]_vars

\* two members of the package list with the same (name, version)
SamePair(pkgs) ==
  \E i, j \in 1..Len(pkgs) :
    i # j /\ pkgs[i].name = pkgs[j].name /\ pkgs[i].version = pkgs[j].version

\* C4: the list returned by getPackagesFromNodeModules holds no two packages
\* with the same (name, version), under the pnpm layout as under the
\* flat/nested one.
C4_NoSamePair == ~SamePair(packages)

\* the flat/nested layout alone keeps it
C4_FlatNoSamePair == detectPackageManager # "pnpm" => ~SamePair(packages)

-----------------------------------------------------------------------------
(* Classification: the projects of SpecClassify *)

\* the members of names, in the order of names, that are in set
Keys(names, set) == SelectSeq(names, LAMBDA n : n \in set)

\* every project manifest that declares a and b in any of its four sections,
\* and the manifests that cannot be read
ClassifyManifests ==
  { ProjectManifest("ok", Keys(<<a, b>>, p), Keys(<<a, b>>, d),
                    Keys(<<a, b>>, e), Keys(<<a, b>>, o)) :
      p \in SUBSET {a, b}, d \in SUBSET {a, b}, e \in SUBSET {a, b},
      o \in SUBSET {a, b} }
  \cup { NoProjectManifest,
         ProjectManifest("invalid", <<>>, <<>>, <<>>, <<>>) }

ClassifyDir ==
  NmDirOf(<< PkgEntry(a, Manifest("ok", v1, <<>>), 1000, NoNmDir),
             PkgEntry(b, Manifest("ok", v2, <<>>), 2000, NoNmDir),
             ScopeEntry(scopeS,
               << PkgEntry(b, Manifest("ok", v1, <<>>), 1000, NoNmDir) >>) >>)

InitClassify ==
  /\ projectManifest \in ClassifyManifests
  /\ lockfiles = {}
  /\ yarnIntegrity = FALSE
  /\ pnpmExists = FALSE
  /\ pnpmReadable = TRUE
  /\ pnpmDir = <<>>
  /\ nmDir = ClassifyDir
  /\ sources = SrcDir(<<>>)
  /\ mode = "idle"
  /\ options = DefaultOptions
  /\ packages = <<>>
  /\ report = NoReport
  /\ removed = <<>>

NextClassify == AnalyzeSizes

SpecClassify == InitClassify /\ [][NextClassify]_vars

\* the names a section of the project manifest declares
Declared(section) ==
  IF projectManifest.kind # "ok" THEN {} ELSE Range(projectManifest[section])

\* C5: every package gets exactly one classification, by the priority
\* prod > dev > peer > optional > transitive: it is prod exactly when its name
\* is in the production set, whatever other sets it is in, and transitive
\* exactly when its name is in none of the four sets.
C5_ClassifiedByPriority ==
  \A i \in 1..Len(packages) :
    LET n == packages[i].name
        t == packages[i].type
        inProd == n \in Declared("dependencies")
        inDev == n \in Declared("devDependencies")
        inPeer == n \in Declared("peerDependencies")
        inOpt == n \in Declared("optionalDependencies")
    IN /\ t \in {"prod", "dev", "peer", "optional", "transitive"}
       /\ (t = "prod") <=> inProd
       /\ (t = "dev") <=> (~inProd /\ inDev)
       /\ (t = "peer") <=> (~inProd /\ ~inDev /\ inPeer)
       /\ (t = "optional") <=> (~inProd /\ ~inDev /\ ~inPeer /\ inOpt)
       /\ (t = "transitive") <=> (~inProd /\ ~inDev /\ ~inPeer /\ ~inOpt)

\* a package declared in all four sections is prod, beside one declared in
\* none, which is transitive
C5_Witness ==
  /\ mode = "sizes"
  /\ \E i, j \in 1..Len(packages) :
       /\ packages[i].type = "prod"
       /\ packages[i].name \in Declared("devDependencies")
                               \cap Declared("peerDependencies")
                               \cap Declared("optionalDependencies")
       /\ packages[j].type = "transitive"

-----------------------------------------------------------------------------
(* Duplicates: the projects and the runs of SpecDup *)

v3 == <<"3.0.0">>

\* bounds of the duplicate projects: installed copies, and the top option
MaxCopies == 4

MaxTop == 2

\* the copies a store may hold: three versions of a, two of b, each of 1000
\* or 2000 bytes
CopyEntries ==
  { PnpmEntry(x[1] \o <<"@">> \o x[2], TRUE, x[1], Manifest("ok", x[2], <<>>), s) :
      x \in {<<a, v1>>, <<a, v2>>, <<a, v3>>, <<b, v1>>, <<b, v2>>},
      s \in {1000, 2000} }

InitDup ==
  /\ projectManifest = StoreProjectManifest
  /\ lockfiles = {"pnpm-lock.yaml"}
  /\ yarnIntegrity = FALSE
  /\ pnpmExists = TRUE
  /\ pnpmReadable = TRUE
  /\ pnpmDir \in Listings(CopyEntries, MaxCopies)
  /\ nmDir = NmDirOf(<<>>)
  /\ sources = SrcDir(<<>>)
  /\ mode = "idle"
  /\ options = DefaultOptions
  /\ packages = <<>>
  /\ report = NoReport
  /\ removed = <<>>

\* pkg-analyzer --duplicates --top <n> [--json]
AnalyzeDuplicates ==
  \E top \in 1..MaxTop, json \in BOOLEAN :
    Run([DefaultOptions EXCEPT !.duplicates = TRUE, !.top = top, !.json = json])

NextDup == AnalyzeDuplicates

SpecDup == InitDup /\ [][NextDup]_vars

\* the list members with a name, and the largest of a sequence of numbers
WithName(pkgs, name) == SelectSeq(pkgs, LAMBDA p : p.name = name)

MaxOf(s) == CHOOSE x \in Range(s) : \A y \in Range(s) : x >= y

Groups == report.duplicates

\* C6: findDuplicates returns a group for a name exactly when at least two
\* list members have that name; a group lists every member with its name (so
\* at least two versions entries), and its totalSize is the sum of the sizes
\* in its versions list.
C6_GroupsAreTheDuplicates ==
  mode = "duplicates" =>
    /\ \A i \in 1..Len(packages) :
         (\E g \in 1..Len(Groups) : Groups[g].name = packages[i].name)
           <=> Len(WithName(packages, packages[i].name)) >= 2
    /\ \A g \in 1..Len(Groups) :
         LET members == WithName(packages, Groups[g].name)
             versions == Groups[g].versions
         IN /\ Len(versions) >= 2
            /\ Len(versions) = Len(members)
            /\ \A k \in 1..Len(members) :
                 /\ versions[k].version = members[k].version
                 /\ versions[k].size = members[k].size
            /\ Groups[g].totalSize = SumSeq([k \in 1..Len(versions) |->
                                               versions[k].size])
            /\ \A h \in 1..Len(Groups) : Groups[h].name = Groups[g].name => h = g

\* a group of three copies beside a name installed once
C6_Witness ==
  /\ mode = "duplicates"
  /\ Len(Groups) = 1
  /\ Len(Groups[1].versions) = 3
  /\ \E i \in 1..Len(packages) : packages[i].name # Groups[1].name

\* C7: the wasted space of duplicates mode is, summed over all duplicate
\* groups and not only the top-N shown, the group's totalSize minus the size
\* of its largest copy; for a@1.0.0 of 1000 bytes and a@2.0.0 of 2000 bytes
\* it is 1000.
C7_WastedSpace ==
  (mode = "duplicates" /\ report.summary) =>
    /\ report.wastedSize =
         SumSeq([g \in 1..Len(Groups) |->
                   Groups[g].totalSize
                     - MaxOf([k \in 1..Len(Groups[g].versions) |->
                                Groups[g].versions[k].size])])
    /\ packages = << [name |-> a, version |-> v1, size |-> 1000, type |-> "prod"],
                     [name |-> a, version |-> v2, size |-> 2000, type |-> "prod"] >>
         => report.wastedSize = 1000

\* two groups of which top = 1 shows one, both counted in the wasted space
C7_Witness ==
  /\ mode = "duplicates"
  /\ report.summary
  /\ options.top = 1
  /\ Len(Groups) = 2
  /\ Len(report.shown) = 1
  /\ report.wastedSize = 2000
  /\ Groups[1].totalSize = 3000
  /\ Groups[2].totalSize = 3000

-----------------------------------------------------------------------------
(* Unused dependencies: the projects, the runs and the edits of SpecUnused *)

eslint == <<"eslint">>
eslintPluginX == <<"eslint", "-plugin-x">>
leftPad == <<"left-pad">>

UnusedNames == <<eslint, eslintPluginX, leftPad>>

\* bound of the unused projects: source edits between runs
MaxEdits == 1

\* the sections one name may be declared in
SectionChoices ==
  { {}, {"prod"}, {"dev"}, {"prod", "dev"}, {"peer"}, {"peer", "dev"},
    {"optional"} }

SectionKeys(decl, section) ==
  SelectSeq(UnusedNames, LAMBDA n : section \in decl[n])

UnusedManifests ==
  { ProjectManifest("ok", SectionKeys(decl, "prod"), SectionKeys(decl, "dev"),
                    SectionKeys(decl, "peer"), SectionKeys(decl, "optional")) :
      decl \in [Range(UnusedNames) -> SectionChoices] }

\* node_modules with the packages of installed
UnusedDir(installed) ==
  NmDirOf(SelectSeq(
    << PkgEntry(eslint, Manifest("ok", v1, <<>>), 3000, NoNmDir),
       PkgEntry(eslintPluginX, Manifest("ok", v1, <<>>), 1000, NoNmDir),
       PkgEntry(leftPad, Manifest("ok", v2, <<>>), 1000, NoNmDir) >>,
    LAMBDA e : e.name \in installed))

\* the project's files: index.ts imports ./util and the packages of
\* imported; src/app.tsx imports left-pad/lib or nothing; dist/bundle.js and
\* README.md name every package
AllSpecifiers == UnusedNames

\* the packages a source file may import by name: a plugin of eslint is named
\* in its configuration, never imported
Importable == {eslint, leftPad}

UnusedSources(imported, nested) ==
  SrcDir(<< SrcFile(<<"index", ".", "ts">>,
                    << <<".", "/", "util">> >> \o Keys(UnusedNames, imported)),
            SrcSubdir(<<"src">>,
                      SrcDir(<< SrcFile(<<"app", ".", "tsx">>, nested) >>)),
            SrcSubdir(<<"dist">>,
                      SrcDir(<< SrcFile(<<"bundle", ".", "js">>, AllSpecifiers) >>)),
            SrcFile(<<"README", ".", "md">>, AllSpecifiers) >>)

InitUnused ==
  /\ projectManifest \in UnusedManifests
  /\ lockfiles = {}
  /\ yarnIntegrity = FALSE
  /\ pnpmExists = FALSE
  /\ pnpmReadable = TRUE
  /\ pnpmDir = <<>>
  /\ nmDir \in { UnusedDir(i) : i \in SUBSET Range(UnusedNames) }
  /\ sources \in { UnusedSources(i, n) :
                     i \in SUBSET Importable,
                     n \in { <<>>, << leftPad \o <<"/", "lib">> >> } }
  /\ mode = "idle"
  /\ options = DefaultOptions
  /\ packages = <<>>
  /\ report = NoReport
  /\ removed = <<>>

\* pkg-analyzer --unused
AnalyzeUnused == Run([DefaultOptions EXCEPT !.unused = TRUE])

\* the entry of a directory at a path of entry positions
RECURSIVE entryAt(_, _)
entryAt(dir, path) ==
  IF Len(path) = 1 THEN dir.entries[path[1]]
  ELSE entryAt(dir.entries[path[1]].dir, Tail(path))

\* the directory with the k-th specifier of the file at path removed
RECURSIVE withoutSpecifier(_, _, _)
withoutSpecifier(dir, path, k) ==
  LET e == dir.entries[path[1]]
  IN [dir EXCEPT !.entries[path[1]] =
        IF Len(path) = 1
          THEN [e EXCEPT !.specifiers =
                  SubSeq(e.specifiers, 1, k - 1)
                    \o SubSeq(e.specifiers, k + 1, Len(e.specifiers))]
          ELSE [e EXCEPT !.dir = withoutSpecifier(e.dir, Tail(path), k)]]

\* index.ts and src/app.tsx
EditedFiles == { <<1>>, <<2, 1>> }

\* the developer deletes one import line after a run; the next run is a new
\* process
RemoveImport ==
  /\ mode = "unused"
  /\ Len(removed) < MaxEdits
  /\ \E path \in EditedFiles :
       \E k \in 1..Len(entryAt(sources, path).specifiers) :
         /\ sources' = withoutSpecifier(sources, path, k)
         /\ removed' = Append(removed, entryAt(sources, path).specifiers[k])
  /\ mode' = "idle"
  /\ options' = DefaultOptions
  /\ packages' = <<>>
  /\ report' = NoReport
  /\ UNCHANGED fsVars

NextUnused == AnalyzeUnused \/ RemoveImport

SpecUnused == InitUnused /\ [][NextUnused]_vars

-----------------------------------------------------------------------------
(* Properties of the unused report *)

Unused == Range(report.unused)

Reported(n) == \E r \in Unused : r.name = n

Installed(n) == \E i \in 1..Len(packages) : packages[i].name = n

\* the name is an allow-list entry or starts with one
AllowListed(n) ==
  \E i \in 1..Len(devToolPatterns) : startsWith(n, devToolPatterns[i])

\* C8 as stated: a development dependency named "eslint", or whose name starts
\* with an allow-list entry such as "eslint-plugin-x", is in no record of the
\* unused report, whatever is imported and whatever is installed.
C8_DevToolNeverReported ==
  mode = "unused" =>
    \A r \in Unused : ~(r.name \in Declared("devDependencies") /\ AllowListed(r.name))

\* C8 amended: a development dependency on the allow-list that is not also a
\* production dependency is in no record of the unused report; one that is
\* also a production dependency is reported only with type prod.
C8_DevOnlyToolNeverReported ==
  mode = "unused" =>
    \A r \in Unused :
      (r.name \in Declared("devDependencies") /\ AllowListed(r.name))
        => (r.type = "prod" /\ r.name \in Declared("dependencies"))

\* eslint-plugin-x is a development dependency only, installed and imported
\* nowhere, and the report that names left-pad does not name it
C8_Witness ==
  /\ mode = "unused"
  /\ eslintPluginX \in Declared("devDependencies")
  /\ eslintPluginX \notin Declared("dependencies")
  /\ Installed(eslintPluginX)
  /\ ~has(scanImports, eslintPluginX)
  /\ ~Reported(eslintPluginX)
  /\ Reported(leftPad)

\* C9: a production dependency is reported exactly when the scanner's set
\* lacks its name and a discovered package has it; so one that a scanned file
\* imports is not reported, and once its last import is removed the next run
\* reports it.
C9_ProdReportedIffNotImported ==
  mode = "unused" =>
    \A n \in Declared("dependencies") :
      (\E r \in Unused : r.name = n /\ r.type = "prod")
        <=> (~has(scanImports, n) /\ Installed(n))

\* the import of left-pad/lib was removed after a run, no import of left-pad
\* is left, and this run reports the production dependency left-pad
C9_Witness ==
  /\ mode = "unused"
  /\ removed = << leftPad \o <<"/", "lib">> >>
  /\ leftPad \in Declared("dependencies")
  /\ ~has(scanImports, leftPad)
  /\ \E r \in Unused : r.name = leftPad /\ r.type = "prod"

\* C10 as stated: every record has type prod or dev and a name of the
\* production or development set, and no name declared as a peer or optional
\* dependency is in a record.
C10_PeerOptionalNeverReported ==
  mode = "unused" =>
    \A r \in Unused :
      /\ r.type \in {"prod", "dev"}
      /\ r.name \in Declared("dependencies") \cup Declared("devDependencies")
      /\ r.name \notin Declared("peerDependencies") \cup Declared("optionalDependencies")

\* C10 amended: every record has type prod and a name of the production set,
\* or type dev and a name of the development set; so a name declared only as
\* a peer or optional dependency is in no record.
C10_OnlyProdAndDevReported ==
  mode = "unused" =>
    \A r \in Unused :
      \/ r.type = "prod" /\ r.name \in Declared("dependencies")
      \/ r.type = "dev" /\ r.name \in Declared("devDependencies")

\* left-pad is a peer dependency only, installed and imported nowhere, and
\* the report has records but none for it
C10_Witness ==
  /\ mode = "unused"
  /\ leftPad \in Declared("peerDependencies")
  /\ leftPad \notin Declared("dependencies") \cup Declared("devDependencies")
  /\ Installed(leftPad)
  /\ ~has(scanImports, leftPad)
  /\ ~Reported(leftPad)
  /\ Unused # {}

-----------------------------------------------------------------------------
(* Layouts: lockfiles, markers and manifests, and the runs of SpecLayout *)

Lockfiles == {"pnpm-lock.yaml", "yarn.lock", "package-lock.json"}

\* node_modules: absent, empty, or holding the package a and a file
LayoutDirs ==
  { NoNmDir, NmDirOf(<<>>),
    NmDirOf(<< PkgEntry(a, Manifest("ok", v1, <<>>), 1000, NoNmDir),
               FileEntry(<<".", "package-lock", ".", "json">>) >>) }

\* node_modules/.pnpm when it exists: empty, or holding a@1.0.0
LayoutPnpmDirs ==
  { <<>>,
    << PnpmEntry(a \o <<"@">> \o v1, TRUE, a, Manifest("ok", v1, <<>>), 1000) >> }

\* the project's package.json: missing, unparseable, without dependencies, or
\* declaring a
LayoutManifests ==
  { NoProjectManifest,
    ProjectManifest("invalid", <<>>, <<>>, <<>>, <<>>),
    ProjectManifest("ok", <<>>, <<>>, <<>>, <<>>),
    ProjectManifest("ok", <<a>>, <<>>, <<>>, <<>>) }

\* the modes of the command line
LayoutOptions ==
  { DefaultOptions,
    [DefaultOptions EXCEPT !.json = TRUE],
    [DefaultOptions EXCEPT !.duplicates = TRUE],
    [DefaultOptions EXCEPT !.unused = TRUE],
    [DefaultOptions EXCEPT !.tree = TreeOption(<<>>)],
    [DefaultOptions EXCEPT !.tree = TreeOption(a)],
    [DefaultOptions EXCEPT !.interactive = TRUE] }

\* the markers are inside node_modules, so they exist only when it does
InitLayout ==
  /\ lockfiles \in SUBSET Lockfiles
  /\ projectManifest \in LayoutManifests
  /\ nmDir \in LayoutDirs
  /\ yarnIntegrity \in (IF nmDir.exists THEN BOOLEAN ELSE {FALSE})
  /\ pnpmExists \in (IF nmDir.exists THEN BOOLEAN ELSE {FALSE})
  /\ pnpmReadable = TRUE
  /\ pnpmDir \in (IF pnpmExists THEN LayoutPnpmDirs ELSE {<<>>})
  /\ sources = SrcDir(<<>>)
  /\ mode = "idle"
  /\ options = DefaultOptions
  /\ packages = <<>>
  /\ report = NoReport
  /\ removed = <<>>

AnalyzeAny == \E opts \in LayoutOptions : Run(opts)

NextLayout == AnalyzeAny

SpecLayout == InitLayout /\ [][NextLayout]_vars

-----------------------------------------------------------------------------
(* Properties of the layouts *)

Ran == mode # "idle"

\* C11: when node_modules does not exist a run, in any mode (interactive
\* too), scans nothing, produces no report and ends as "node_modules not
\* found"; a run that scans an existing node_modules and discovers no package
\* ends as "No packages found", a different outcome.
C11_NodeModulesNotFound ==
  /\ (Ran /\ ~nmDir.exists)
       => (mode = "nmNotFound" /\ report = NoReport /\ packages = <<>>)
  /\ mode = "nmNotFound" => ~nmDir.exists
  /\ mode = "noPackages" => (nmDir.exists /\ packages = <<>> /\ report = NoReport)

\* an interactive run without node_modules
C11_Witness ==
  /\ mode = "nmNotFound"
  /\ options.interactive
  /\ ~nmDir.exists
  /\ report = NoReport

\* C12 as stated: whatever the lockfiles and markers, once node_modules
\* exists discovery returns a list (possibly empty) and never terminates the
\* process.
C12_DiscoveryNeverExits ==
  (Ran /\ nmDir.exists) => mode # "exit"

\* C14 as stated: with a missing or unparseable project package.json
\* getProjectDeps gives four empty sets and no run raises an error; the tree
\* without a start package is the empty root list.
C14_ManifestNeverFatal ==
  projectManifest.kind # "ok" =>
    /\ getProjectDeps(projectManifest)
         = [prod |-> <<>>, dev |-> <<>>, peer |-> <<>>, optional |-> <<>>]
    /\ mode # "throw"
    /\ (Ran /\ options.tree = TreeOption(<<>>) /\ packages # <<>>)
         => (mode = "tree" /\ report.tree = <<>>)

\* C17: detectPackageManager always returns a tag; a lockfile decides first
\* (pnpm-lock.yaml, then yarn.lock, then package-lock.json), whatever the
\* markers; without a lockfile node_modules/.pnpm decides, then
\* node_modules/.yarn-integrity; otherwise the tag is npm.
C17_DetectionOrder ==
  LET tag == detectPackageManager
      expected ==
        IF "pnpm-lock.yaml" \in lockfiles THEN "pnpm"
        ELSE IF "yarn.lock" \in lockfiles THEN "yarn"
        ELSE IF "package-lock.json" \in lockfiles THEN "npm"
        ELSE IF pnpmExists THEN "pnpm"
        ELSE IF yarnIntegrity THEN "yarn"
        ELSE "npm"
  IN /\ tag \in {"pnpm", "yarn", "npm"}
     /\ tag = expected
     /\ (lockfiles # {} /\ Ran /\ nmDir.exists /\ ~options.interactive
           /\ "pnpm-lock.yaml" \notin lockfiles)
          => mode # "exit"

\* yarn.lock and package-lock.json with the marker .pnpm: the tag is yarn and
\* the run scanned node_modules itself
C17_Witness ==
  /\ lockfiles = {"yarn.lock", "package-lock.json"}
  /\ pnpmExists /\ pnpmDir # <<>>
  /\ detectPackageManager = "yarn"
  /\ mode = "sizes"
  /\ Len(packages) = 1

-----------------------------------------------------------------------------
(* Unreadable directories: the stores and the runs of SpecWalk *)

\* a directory whose readdirSync throws (EACCES)
Unreadable(dir) == [dir EXCEPT !.readable = FALSE]

WalkPackage == PkgEntry(b, Manifest("ok", v1, <<>>), 1000, NoNmDir)

\* node_modules entries: a; b with a nested node_modules, readable or not;
\* the scope @s holding b, readable or not; a file
WalkEntries ==
  { PkgEntry(a, Manifest("ok", v1, <<>>), 1000, NoNmDir),
    PkgEntry(b, Manifest("ok", v2, <<>>), 2000,
             NmDirOf(<< PkgEntry(a, Manifest("ok", v2, <<>>), 2500, NoNmDir) >>)),
    PkgEntry(b, Manifest("ok", v2, <<>>), 2000, Unreadable(NmDirOf(<<>>))),
    ScopeEntry(scopeS, << WalkPackage >>),
    Unreadable(ScopeEntry(scopeS, << WalkPackage >>)),
    FileEntry(<<"x">>) }

WalkPnpmEntries ==
  { PnpmEntry(a \o <<"@">> \o v1, TRUE, a, Manifest("ok", v1, <<>>), 1000),
    PnpmEntry(<<"@", "s", "+", "b", "@">> \o v1, TRUE, scopedB,
              Manifest("ok", v1, <<>>), 1000),
    PnpmEntry(<<"lock", ".", "yaml">>, FALSE, <<>>, NoManifest, 0) }

InitWalk ==
  /\ projectManifest = StoreProjectManifest
  /\ yarnIntegrity = FALSE
  /\ lockfiles = {}
  /\ \/ /\ pnpmExists = TRUE
        /\ pnpmReadable \in BOOLEAN
        /\ pnpmDir \in Listings(WalkPnpmEntries, MaxStoreEntries)
        /\ nmDir = NmDirOf(<<>>)
     \/ /\ pnpmExists = FALSE
        /\ pnpmReadable = TRUE
        /\ pnpmDir = <<>>
        /\ nmDir \in { NmDirOf(l) : l \in Listings(WalkEntries, MaxStoreEntries) }
                       \cup { Unreadable(NmDirOf(<<>>)) }
  /\ sources = SrcDir(<<>>)
  /\ mode = "idle"
  /\ options = DefaultOptions
  /\ packages = <<>>
  /\ report = NoReport
  /\ removed = <<>>

\* pkg-analyzer, pkg-analyzer --duplicates, pkg-analyzer --tree
AnalyzeWalk ==
  \E opts \in { DefaultOptions, [DefaultOptions EXCEPT !.duplicates = TRUE],
                [DefaultOptions EXCEPT !.tree = TreeOption(<<>>)] } : Run(opts)

NextWalk == AnalyzeWalk

SpecWalk == InitWalk /\ [][NextWalk]_vars

\* the names of the packages in the readable directories of a node_modules
\* tree, the unreadable directories skipped
RECURSIVE InReadableDirs(_)
InReadableDirs(nm) ==
  IF ~nm.exists \/ ~nm.readable THEN {}
  ELSE UNION {
    IF ~e.isDir \/ startsWith(e.name, <<".">>) THEN {}
    ELSE IF startsWith(e.name, <<"@">>)
      THEN IF ~e.readable THEN {}
           ELSE UNION { (IF se.manifest.kind = "ok"
                           THEN {e.name \o <<"/">> \o se.name} ELSE {})
                        \cup InReadableDirs(se.nm) : se \in Range(e.scoped) }
    ELSE (IF e.manifest.kind = "ok" THEN {e.name} ELSE {})
           \cup InReadableDirs(e.nm) : e \in Range(nm.entries) }

\* C13 as stated: a directory whose listing fails (a node_modules directory,
\* a scope directory, or .pnpm) is skipped and does not abort the walk: no run
\* ends with an exception and the packages of the readable directories are
\* all returned.
C13_UnreadableDirSkipped ==
  Ran =>
    /\ mode # "throw"
    /\ ~pnpmExists =>
         \A n \in InReadableDirs(nmDir) :
           \E i \in 1..Len(packages) : packages[i].name = n

-----------------------------------------------------------------------------
(* Package directories and their sizes: the stores and the runs of SpecSize *)

\* a package directory with its content: the size of the entry is what
\* getDirSize(pkgPath) returns for it
PkgDirEntry(name, manifest, tree) ==
  [name |-> name, isDir |-> TRUE, readable |-> TRUE, manifest |-> manifest,
   size |-> getDirSize(tree), nm |-> NoNmDir, scoped |-> <<>>, tree |-> tree]

\* contents that hold a package.json of 100 bytes: two files; a readable
\* subdirectory and a symbolic link; a subdirectory that cannot be listed; a
\* file statSync fails on, between two it succeeds on
SizeTrees ==
  { Dir(<< RegularFile(100), RegularFile(900) >>),
    Dir(<< RegularFile(100), Subdir(Dir(<< RegularFile(500) >>)), OtherEntry >>),
    Dir(<< RegularFile(100),
           Subdir([Dir(<< RegularFile(500) >>) EXCEPT !.readable = FALSE]) >>),
    Dir(<< RegularFile(100), [RegularFile(300) EXCEPT !.statOk = FALSE],
           RegularFile(200) >>) }

\* a content without package.json
NoManifestTree == Dir(<< RegularFile(50) >>)

SizeManifests ==
  { Manifest("ok", v1, <<>>), Manifest("ok", <<>>, <<>>),
    Manifest("invalid", <<>>, <<>>) }

SizeEntries ==
  { PkgDirEntry(n, m, t) : n \in {a, b}, m \in SizeManifests, t \in SizeTrees }
  \cup { PkgDirEntry(n, NoManifest, NoManifestTree) : n \in {a, b} }
  \cup { FileEntry(<<"x">>) }

InitSize ==
  /\ projectManifest = StoreProjectManifest
  /\ yarnIntegrity = FALSE
  /\ lockfiles = {}
  /\ pnpmExists = FALSE
  /\ pnpmReadable = TRUE
  /\ pnpmDir = <<>>
  /\ nmDir \in { NmDirOf(l) : l \in Listings(SizeEntries, MaxStoreEntries) }
  /\ sources = SrcDir(<<>>)
  /\ mode = "idle"
  /\ options = DefaultOptions
  /\ packages = <<>>
  /\ report = NoReport
  /\ removed = <<>>

NextSize == AnalyzeSizes

SpecSize == InitSize /\ [][NextSize]_vars

-----------------------------------------------------------------------------
(* Properties of the sizes and of getPackageInfo *)

\* the sum of the sizes of all regular files of a directory tree
RECURSIVE FilesTotal(_)
FilesTotal(dir) ==
  SumSeq([i \in 1..Len(dir.entries) |->
            LET e == dir.entries[i]
            IN IF e.kind = "file" THEN e.size
               ELSE IF e.kind = "dir" THEN FilesTotal(e.dir)
               ELSE 0])

\* every directory of the tree can be listed and every file examined
RECURSIVE FullyReadable(_)
FullyReadable(dir) ==
  /\ dir.readable
  /\ \A i \in 1..Len(dir.entries) :
       LET e == dir.entries[i]
       IN /\ e.kind = "file" => e.statOk
          /\ e.kind = "dir" => FullyReadable(e.dir)

\* the package directories of node_modules
PackageDirs == { e \in Range(nmDir.entries) : e.isDir }

PackagesNamed(n) == { i \in 1..Len(packages) : packages[i].name = n }

\* C15 as stated: the size of every discovered package is the sum of the
\* sizes of all regular files of its directory tree, and a package whose
\* directory cannot be fully read is not in the result.
C15_SizeIsSumOfFiles ==
  Ran =>
    \A e \in PackageDirs :
      \A i \in PackagesNamed(e.name) :
        /\ FullyReadable(e.tree)
        /\ packages[i].size = FilesTotal(e.tree)

\* what holds: the size is that sum for every package whose directory is
\* fully readable
C15_ReadableSizeIsSumOfFiles ==
  Ran =>
    \A e \in PackageDirs :
      \A i \in PackagesNamed(e.name) :
        FullyReadable(e.tree) => packages[i].size = FilesTotal(e.tree)

\* C16: a directory yields a package exactly when its package.json exists,
\* can be read and parses; otherwise it yields none and nothing is raised;
\* the version is "unknown" when the manifest has none.
C16_PackageIffManifest ==
  Ran =>
    /\ mode # "throw"
    /\ \A e \in PackageDirs :
         /\ PackagesNamed(e.name) # {} <=> e.manifest.kind = "ok"
         /\ Cardinality(PackagesNamed(e.name)) <= 1
         /\ \A i \in PackagesNamed(e.name) :
              packages[i].version =
                (IF e.manifest.version = <<>> THEN unknown ELSE e.manifest.version)

\* a has a manifest without version and is reported with version unknown; b
\* has an unparseable manifest and is not in the list
C16_Witness ==
  /\ mode = "sizes"
  /\ \E e \in PackageDirs :
       e.name = a /\ e.manifest = Manifest("ok", <<>>, <<>>)
  /\ \E e \in PackageDirs : e.name = b /\ e.manifest.kind = "invalid"
  /\ Len(packages) = 1
  /\ packages[1].name = a /\ packages[1].version = unknown

-----------------------------------------------------------------------------
(* Import specifiers: the source files and the runs of SpecImports *)

\* bound of the import projects: import statements in the source file
MaxSpecifiers == 2

\* 'a', 'a/sub', '@s/b', '@s/b/sub/x', '@s', './a', '../a', '/a'
Specifiers ==
  { a, a \o <<"/", "sub">>, scopedB, scopedB \o <<"/", "sub", "/", "x">>,
    scopeS, <<".", "/", "a">>, <<".", ".", "/", "a">>, <<"/", "a">> }

ImportsManifest == ProjectManifest("ok", <<a, scopedB>>, <<>>, <<>>, <<>>)

\* node_modules/a and node_modules/@s/b
ImportsDir ==
  NmDirOf(<< PkgEntry(a, Manifest("ok", v1, <<>>), 1000, NoNmDir),
             ScopeEntry(scopeS,
               << PkgEntry(b, Manifest("ok", v1, <<>>), 2000, NoNmDir) >>) >>)

InitImports ==
  /\ projectManifest = ImportsManifest
  /\ lockfiles = {}
  /\ yarnIntegrity = FALSE
  /\ pnpmExists = FALSE
  /\ pnpmReadable = TRUE
  /\ pnpmDir = <<>>
  /\ nmDir = ImportsDir
  /\ sources \in { SrcDir(<< SrcFile(<<"index", ".", "ts">>, specifiers) >>) :
                     specifiers \in UNION { [1..k -> Specifiers] :
                                              k \in 0..MaxSpecifiers } }
  /\ mode = "idle"
  /\ options = DefaultOptions
  /\ packages = <<>>
  /\ report = NoReport
  /\ removed = <<>>

NextImports == AnalyzeUnused

SpecImports == InitImports /\ [][NextImports]_vars

-----------------------------------------------------------------------------
(* Properties of the import scan *)

\* the specifiers of the one source file
FileSpecifiers == Range(sources.entries[1].specifiers)

\* the package a specifier names: up to its second "/" when it starts with
\* "@" and has a "/", up to its first "/" otherwise
PackageOf(sp) ==
  LET slashes == {i \in 1..Len(sp) : sp[i] = "/"}
      first == CHOOSE i \in slashes : \A j \in slashes : i <= j
      rest == slashes \ {first}
      second == CHOOSE i \in rest : \A j \in rest : i <= j
  IN IF sp[1] = "@" /\ slashes # {}
       THEN IF rest = {} THEN sp ELSE SubSeq(sp, 1, second - 1)
     ELSE IF slashes = {} THEN sp
     ELSE SubSeq(sp, 1, first - 1)

\* C18: the names scanImports returns are, for each matched specifier, its
\* first two "/"-separated segments when it starts with "@" and has a "/",
\* and its first segment otherwise; a specifier that begins with "." or "/"
\* adds nothing.  So the unused report names exactly the declared packages
\* that no such specifier names.
C18_ImportedNames ==
  LET expected == { PackageOf(sp) :
                      sp \in { x \in FileSpecifiers : x[1] \notin {".", "/"} } }
  IN /\ Range(scanImports) = expected
     /\ mode = "unused" =>
          \A n \in {a, scopedB} : Reported(n) <=> n \notin expected

\* '@s/b/sub/x' and './a' are imported: the scan returns @s/b alone, and a is
\* reported unused
C18_Witness ==
  /\ mode = "unused"
  /\ sources.entries[1].specifiers
       = << scopedB \o <<"/", "sub", "/", "x">>, <<".", "/", "a">> >>
  /\ scanImports = << scopedB >>
  /\ Reported(a)
  /\ ~Reported(scopedB)

-----------------------------------------------------------------------------
(* The top-N limit: the stores and the runs of SpecTop *)

\* node_modules entries: a, b and pkgC in two sizes, a with a nested copy of
\* b, and the scope @s holding b
TopEntries ==
  { PkgEntry(a, Manifest("ok", v1, <<>>), 1000, NoNmDir),
    PkgEntry(a, Manifest("ok", v2, <<>>), 2000,
             NmDirOf(<< PkgEntry(b, Manifest("ok", v1, <<>>), 1500, NoNmDir) >>)),
    PkgEntry(b, Manifest("ok", v1, <<>>), 1000, NoNmDir),
    PkgEntry(b, Manifest("ok", v2, <<>>), 3000, NoNmDir),
    PkgEntry(pkgC, Manifest("ok", v1, <<>>), 2000, NoNmDir),
    ScopeEntry(scopeS,
      << PkgEntry(b, Manifest("ok", v1, <<>>), 2500, NoNmDir) >>) }

\* --top: 0 up to MaxTop, and the default
TopValues == (0..MaxTop) \cup {DefaultTop}

InitTop ==
  /\ projectManifest = StoreProjectManifest
  /\ lockfiles = {}
  /\ yarnIntegrity = FALSE
  /\ pnpmExists = FALSE
  /\ pnpmReadable = TRUE
  /\ pnpmDir = <<>>
  /\ nmDir \in { NmDirOf(l) : l \in Listings(TopEntries, MaxStoreEntries) }
  /\ sources = SrcDir(<<>>)
  /\ mode = "idle"
  /\ options = DefaultOptions
  /\ packages = <<>>
  /\ report = NoReport
  /\ removed = <<>>

\* pkg-analyzer --top N, with or without --json
AnalyzeTop ==
  \E top \in TopValues, json \in BOOLEAN :
    Run([DefaultOptions EXCEPT !.top = top, !.json = json])

NextTop == AnalyzeTop

SpecTop == InitTop /\ [][NextTop]_vars

-----------------------------------------------------------------------------
(* Properties of the top-N limit *)

\* the report of a run on the same project with another value of top
ReportWithTop(top) == analyze([options EXCEPT !.top = top]).report

IsSortedBySize(s) == \A i, j \in 1..Len(s) : i < j => s[i].size >= s[j].size

\* C19: a run of the size report with another top on the same project gives
\* the same total size, package count and per-type counts and sizes, and each
\* run shows the first min(top, count) packages of one list, the discovered
\* packages sorted by size.
C19_TopOnlyLimitsShown ==
  mode = "sizes" =>
    LET whole == ReportWithTop(Len(packages)).packages
    IN /\ Len(whole) = Len(packages)
       /\ Range(whole) = Range(packages)
       /\ IsSortedBySize(whole)
       /\ report.count = Len(packages)
       /\ \A top \in TopValues :
            LET other == ReportWithTop(top)
                n == IF top < other.count THEN top ELSE other.count
            IN /\ other.total = report.total
               /\ other.count = report.count
               /\ other.counts = report.counts
               /\ other.sizes = report.sizes
               /\ other.packages = SubSeq(whole, 1, n)

\* three packages are discovered and --top 1 shows one of them, with the
\* total of all three
C19_Witness ==
  /\ mode = "sizes"
  /\ options.top = 1
  /\ Len(packages) = 3
  /\ Len(report.packages) = 1
  /\ report.count = 3
  /\ report.total > report.packages[1].size

-----------------------------------------------------------------------------
(* Roots of the tree: the projects and the runs of SpecRoots *)

RootNames == <<a, b, pkgC, ghost>>

\* the sections each name is declared in: a and b in any of the choices,
\* pkgC as a peer dependency or not at all, ghost (never installed) as a
\* production dependency or not at all
RootDeclarations ==
  { decl \in [Range(RootNames) -> SectionChoices] :
      /\ decl[pkgC] \in { {}, {"peer"} }
      /\ decl[ghost] \in { {}, {"prod"} } }

RootSection(decl, section) ==
  SelectSeq(RootNames, LAMBDA n : section \in decl[n])

RootManifests ==
  { ProjectManifest("ok", RootSection(decl, "prod"), RootSection(decl, "dev"),
                    RootSection(decl, "peer"), RootSection(decl, "optional")) :
      decl \in RootDeclarations }

\* node_modules with the packages of installed; every package depends on pkgC
RootDir(installed) ==
  NmDirOf(SelectSeq(
    << PkgEntry(a, Manifest("ok", v1, <<pkgC>>), 1000, NoNmDir),
       PkgEntry(b, Manifest("ok", v1, <<pkgC>>), 3000, NoNmDir),
       PkgEntry(pkgC, Manifest("ok", v1, <<>>), 2000, NoNmDir) >>,
    LAMBDA e : e.name \in installed))

InitRoots ==
  /\ projectManifest \in RootManifests
  /\ lockfiles = {}
  /\ yarnIntegrity = FALSE
  /\ pnpmExists = FALSE
  /\ pnpmReadable = TRUE
  /\ pnpmDir = <<>>
  /\ nmDir \in { RootDir(i) : i \in SUBSET {a, b, pkgC} }
  /\ sources = SrcDir(<<>>)
  /\ mode = "idle"
  /\ options = DefaultOptions
  /\ packages = <<>>
  /\ report = NoReport
  /\ removed = <<>>

\* pkg-analyzer --tree
AnalyzeRoots == Run([DefaultOptions EXCEPT !.tree = TreeOption(<<>>)])

NextRoots == AnalyzeRoots

SpecRoots == InitRoots /\ [][NextRoots]_vars

-----------------------------------------------------------------------------
(* Properties of the roots *)

RootsNamed(n) == { i \in 1..Len(report.tree) : report.tree[i].name = n }

\* C20 as stated: without a start package the tree has exactly one root for
\* each name of the production or development set that is a discovered
\* package, no root for any other name (declared only as peer or optional, or
\* not installed), and the roots are in descending order of size.
C20_OneRootPerDirectDependency ==
  mode = "tree" =>
    /\ \A n \in Range(RootNames) :
         Cardinality(RootsNamed(n)) =
           (IF /\ n \in Declared("dependencies") \cup Declared("devDependencies")
               /\ Installed(n)
              THEN 1 ELSE 0)
    /\ IsSortedBySize(report.tree)

\* what holds: one root for each declaration of an installed name in the
\* production section and one for each in the development section
C20_OneRootPerDeclaration ==
  mode = "tree" =>
    /\ \A n \in Range(RootNames) :
         Cardinality(RootsNamed(n)) =
           (IF Installed(n)
              THEN (IF n \in Declared("dependencies") THEN 1 ELSE 0)
                     + (IF n \in Declared("devDependencies") THEN 1 ELSE 0)
              ELSE 0)
    /\ IsSortedBySize(report.tree)

-----------------------------------------------------------------------------
(* Installed copies: the projects and the runs of SpecCopies *)

OtherName(n) == IF n = a THEN b ELSE a

\* the package.json of an installed copy: no dependency, one on the other
\* package, or a file that does not parse
CopiesManifests(version, dep) ==
  { Manifest("ok", version, <<>>), Manifest("ok", version, <<dep>>),
    Manifest("invalid", <<>>, <<>>) }

\* the node_modules inside a package directory: none, or one that holds one
\* copy of the other package
CopiesNested(name) ==
  { NoNmDir } \cup
  { NmDirOf(<< PkgEntry(name, Manifest("ok", v, <<>>), StoreSize(v, TRUE),
                        NoNmDir) >>) : v \in {v1, v2} }

CopiesFlatEntries ==
  UNION { { PkgEntry(n, m, StoreSize(m.version, FALSE), nm) :
              m \in CopiesManifests(v1, OtherName(n)),
              nm \in CopiesNested(OtherName(n)) } : n \in {a, b} }

\* .pnpm entries a@1.0.0, a@2.0.0, b@1.0.0, b@2.0.0: with the package
\* directory inside, or without it
CopiesPnpmEntries ==
  UNION { { PnpmEntry(x[1] \o <<"@">> \o x[2], TRUE, x[1], m,
                      StoreSize(x[2], FALSE)) :
              m \in CopiesManifests(x[2], OtherName(x[1])) } :
          x \in {a, b} \X {v1, v2} }
  \cup { PnpmEntry(n \o <<"@">> \o v, TRUE, <<>>, NoManifest, 0) :
           n \in {a, b}, v \in {v1, v2} }

InitCopies ==
  /\ lockfiles = {}
  /\ projectManifest = StoreProjectManifest
  /\ yarnIntegrity = FALSE
  /\ \/ /\ pnpmExists = TRUE
        /\ pnpmReadable = TRUE
        /\ pnpmDir \in Listings(CopiesPnpmEntries, MaxStoreEntries)
        /\ nmDir = NmDirOf(<<>>)
     \/ /\ pnpmExists = FALSE
        /\ pnpmReadable = TRUE
        /\ pnpmDir = <<>>
        /\ nmDir \in { NmDirOf(l) :
                         l \in Listings(CopiesFlatEntries, MaxStoreEntries) }
  /\ sources = SrcDir(<<>>)
  /\ mode = "idle"
  /\ options = DefaultOptions
  /\ packages = <<>>
  /\ report = NoReport
  /\ removed = <<>>

\* pkg-analyzer --tree [package] --depth <n>
AnalyzeCopies ==
  \E start \in {<<>>, a, b}, depth \in TreeDepths :
    Run([DefaultOptions EXCEPT !.tree = TreeOption(start), !.depth = depth])

NextCopies == AnalyzeCopies

SpecCopies == InitCopies /\ [][NextCopies]_vars

-----------------------------------------------------------------------------
(* Properties of the trees over installed copies *)

\* the name is in the package index
InIndex(name) == packageMapGet(packages, name) # <<>>

\* C21: for every node of a tree built by buildTree at a depth below maxDepth,
\* under both layouts, each name its package declares that is in the
\* discovered package index and not on the path from the root is a child of
\* the node; a declared name that is not in the index gives no child and no
\* error.
C21_DeclaredInIndexIsChild ==
  /\ options.tree.given => mode # "throw"
  /\ mode = "tree" =>
       \A n \in TreeNodes :
         \A d \in Range(Declares(n.node.name)) :
           /\ (Len(n.path) <= options.depth /\ InIndex(d)
                 /\ d \notin Range(n.path))
                => d \in ChildNames(n.node)
           /\ ~InIndex(d) => d \notin ChildNames(n.node)

\* what holds: the declared names that become children are those in the index
\* whose directory findPkgPath finds, which in the flat layout is a directory
\* directly under the top node_modules
C21_DeclaredResolvableIsChild ==
  /\ options.tree.given => mode # "throw"
  /\ mode = "tree" =>
       \A n \in TreeNodes :
         \A d \in Range(Declares(n.node.name)) :
           /\ (Len(n.path) <= options.depth /\ Resolvable(d)
                 /\ d \notin Range(n.path))
                => d \in ChildNames(n.node)
           /\ ~InIndex(d) => d \notin ChildNames(n.node)

\* a run of buildTree with a start package
StartGiven == options.tree.given /\ options.tree.name # <<>>

\* the package.json in the directory findPkgPath finds for the name cannot be
\* read or parsed
ManifestUnreadable(name) ==
  findPkgPath(name) # <<>> /\ findPkgPath(name)[1].kind # "ok"

\* C22: buildTree with a start package name returns at most one tree, rooted
\* at that name; when the name is not in the package index, or the package's
\* manifest is unreadable, it returns an empty list and raises no error.
C22_StartPackage ==
  (StartGiven /\ mode \in {"tree", "throw"}) =>
    /\ mode = "tree"
    /\ Len(report.tree) <= 1
    /\ \A i \in 1..Len(report.tree) : report.tree[i].name = options.tree.name
    /\ (~InIndex(options.tree.name) \/ ManifestUnreadable(options.tree.name))
         => report.tree = <<>>

\* what holds: at most one tree, rooted at the name, and none for a name
\* outside the index; a start package whose manifest cannot be read is a root
\* without children
C22_StartPackageInIndex ==
  (StartGiven /\ mode \in {"tree", "throw"}) =>
    /\ mode = "tree"
    /\ Len(report.tree) <= 1
    /\ \A i \in 1..Len(report.tree) : report.tree[i].name = options.tree.name
    /\ ~InIndex(options.tree.name) => report.tree = <<>>
    /\ (InIndex(options.tree.name) /\ ManifestUnreadable(options.tree.name))
         => /\ Len(report.tree) = 1
            /\ report.tree[1].children = <<>>

-----------------------------------------------------------------------------
(* Filters: the projects and the runs of SpecFilter *)

\* package names spelt letter by letter; Ab has an upper-case letter
ab == <<"a", "b">>
Ab == <<"A", "b">>
bc == <<"b", "c">>

FilterNames == {ab, Ab, bc}

FilterSize(name) == CASE name = ab -> 300 [] name = Ab -> 200 [] OTHER -> 100

FilterEntries ==
  { PkgEntry(n, m, FilterSize(n), NoNmDir) :
      n \in FilterNames,
      m \in {Manifest("ok", v1, <<>>), Manifest("invalid", <<>>, <<>>)} }

\* ab is a production dependency, bc a development one, Ab is transitive
FilterProjectManifest == ProjectManifest("ok", <<ab>>, <<bc>>, <<>>, <<>>)

\* --type and --filter values
FilterTypes == {"all", "prod", "dev", "transitive"}

FilterKeywords == {NoFilter, <<"a">>, <<"B">>, <<"b", "c">>, <<"z">>}

InitFilter ==
  /\ lockfiles = {}
  /\ projectManifest = FilterProjectManifest
  /\ yarnIntegrity = FALSE
  /\ pnpmExists = FALSE
  /\ pnpmReadable = TRUE
  /\ pnpmDir = <<>>
  /\ nmDir \in { NmDirOf(l) : l \in Listings(FilterEntries, MaxStoreEntries) }
  /\ sources = SrcDir(<<>>)
  /\ mode = "idle"
  /\ options = DefaultOptions
  /\ packages = <<>>
  /\ report = NoReport
  /\ removed = <<>>

\* pkg-analyzer --type <type> [--filter <keyword>] [--json]
AnalyzeFiltered ==
  \E type \in FilterTypes, filter \in FilterKeywords, json \in BOOLEAN :
    Run([DefaultOptions EXCEPT !.type = type, !.filter = filter,
                               !.json = json])

NextFilter == AnalyzeFiltered

SpecFilter == InitFilter /\ [][NextFilter]_vars

-----------------------------------------------------------------------------
(* Properties of the filters *)

\* the text with every upper-case letter replaced by its lower-case one
Folded(s) ==
  [i \in 1..Len(s) |->
     IF s[i] \in {"A", "B", "C"}
       THEN CHOOSE c \in {"a", "b", "c"} : <<s[i], c>> \in {<<"A", "a">>, <<"B", "b">>, <<"C", "c">>}
       ELSE s[i]]

\* keyword occurs in name, case ignored
NameHas(name, keyword) ==
  \E pre, post \in 0..Len(name) :
    /\ pre + Len(keyword) + post = Len(name)
    /\ \A i \in 1..Len(keyword) : Folded(name)[pre + i] = Folded(keyword)[i]

\* the discovered packages that pass the type filter and the name filter
LeftToReport ==
  { i \in 1..Len(packages) :
      /\ options.type = "all" \/ packages[i].type = options.type
      /\ options.filter = NoFilter \/ NameHas(packages[i].name, options.filter) }

\* a run that got as far as the size report
SizesRun == mode \in {"noPackages", "noMatch", "sizes"}

\* C23: whenever the list of packages left to report is empty, because none
\* were discovered or because none pass the type filter and the
\* case-insensitive name filter, analyze reports 'No packages found' and
\* prints no size report.
C23_NoPackagesFound ==
  (SizesRun /\ LeftToReport = {}) =>
    mode \in {"noPackages", "noMatch"} /\ report = NoReport

\* what holds: 'No packages found' is reported when nothing was discovered or
\* when a keyword was given and nothing is left; and whatever is reported is
\* exactly the list left
C23_NoPackagesFoundWithKeyword ==
  SizesRun =>
    /\ (LeftToReport = {} /\ (packages = <<>> \/ options.filter # NoFilter))
         => mode \in {"noPackages", "noMatch"} /\ report = NoReport
    /\ LeftToReport # {}
         => /\ mode = "sizes"
            /\ report.count = Cardinality(LeftToReport)
            /\ Range(report.packages) = {packages[i] : i \in LeftToReport}
    /\ (LeftToReport = {} /\ packages # <<>> /\ options.filter = NoFilter)
         => mode = "sizes" /\ report.count = 0

-----------------------------------------------------------------------------
(* The flat/nested walk: the projects and the runs of SpecFlat *)

InitFlat ==
  /\ lockfiles = {}
  /\ projectManifest = StoreProjectManifest
  /\ yarnIntegrity = FALSE
  /\ pnpmExists = FALSE
  /\ pnpmReadable = TRUE
  /\ pnpmDir = <<>>
  /\ nmDir \in { NmDirOf(l) : l \in Listings(FlatEntries, MaxStoreEntries) }
  /\ sources = SrcDir(<<>>)
  /\ mode = "idle"
  /\ options = DefaultOptions
  /\ packages = <<>>
  /\ report = NoReport
  /\ removed = <<>>

NextFlat == AnalyzeSizes

SpecFlat == InitFlat /\ [][NextFlat]_vars

-----------------------------------------------------------------------------
(* Properties of the flat/nested walk *)

\* the package directories under a node_modules in the order the walk visits
\* them: a directory before the node_modules inside it, entries in readdir
\* order; each with the name, version and size of the copy it holds
RECURSIVE VisitedDirs(_), VisitedEntries(_, _)
VisitedDirs(nm) == IF ~nm.exists THEN <<>> ELSE VisitedEntries(nm.entries, <<>>)

VisitedEntries(entries, scope) ==
  IF entries = <<>> THEN <<>>
  ELSE LET e == Head(entries)
           here == IF ~e.isDir THEN <<>>
                   ELSE IF scope = <<>> /\ e.name[1] = "." THEN <<>>
                   ELSE IF scope = <<>> /\ e.name[1] = "@"
                     THEN VisitedEntries(e.scoped, e.name \o <<"/">>)
                   ELSE (IF e.manifest.kind = "ok"
                           THEN << [name |-> scope \o e.name,
                                    version |-> IF e.manifest.version = <<>>
                                                  THEN unknown
                                                  ELSE e.manifest.version,
                                    size |-> e.size] >>
                           ELSE <<>>)
                        \o VisitedDirs(e.nm)
       IN here \o VisitedEntries(Tail(entries), scope)

SameKey(p, q) == p.name = q.name /\ p.version = q.version

\* the first directory visited that holds a copy with the key of p
FirstVisited(p) ==
  LET dirs == VisitedDirs(nmDir)
      hits == {i \in 1..Len(dirs) : SameKey(dirs[i], p)}
  IN dirs[CHOOSE i \in hits : \A j \in hits : i <= j]

FlatWalkRan == detectPackageManager # "pnpm" /\ mode = "sizes"

\* C24: in the flat/nested walk, when several directories hold the same
\* (name, version), the Package kept is the one from the first directory
\* visited in walk order; a later directory with the same key neither
\* replaces it nor changes its size.
C24_FirstOccurrenceWins ==
  FlatWalkRan =>
    LET dirs == VisitedDirs(nmDir)
    IN /\ \A i \in 1..Len(dirs) :
            \E j \in 1..Len(packages) : SameKey(packages[j], dirs[i])
       /\ \A j \in 1..Len(packages) :
            /\ \E i \in 1..Len(dirs) : SameKey(dirs[i], packages[j])
            /\ packages[j].size = FirstVisited(packages[j]).size
            /\ \A k \in 1..Len(packages) : SameKey(packages[k], packages[j]) => k = j

\* two directories with the same (name, version) and different sizes, the
\* nested one visited first
C24_Witness ==
  /\ FlatWalkRan
  /\ LET dirs == VisitedDirs(nmDir)
     IN \E i, j \in 1..Len(dirs) :
          /\ i < j /\ SameKey(dirs[i], dirs[j])
          /\ dirs[i].size > dirs[j].size
          /\ \E k \in 1..Len(packages) :
               SameKey(packages[k], dirs[i]) /\ packages[k].size = dirs[i].size

-----------------------------------------------------------------------------
(* Central-store entry names: the projects and the runs of SpecParse *)

\* names of .pnpm entries: plain, with a peer suffix (which holds further
\* "@" and "+"), and names that are no name@version
ParseEntryNames ==
  { a \o <<"@">> \o v1,
    a \o <<"@">> \o v2,
    a \o <<"@">> \o v1 \o <<"_p", "@">> \o v1,
    a \o <<"@">> \o v1 \o <<"_", "@", "s", "+", "b", "@">> \o v1,
    <<"@", "s", "+", "b", "@">> \o v1,
    <<"@", "s", "+", "b", "@">> \o v1 \o <<"_p", "@">> \o v1,
    <<"@", "s", "+", "b">>,
    <<"@", "s">>,
    <<"node_modules">>,
    <<"lock", ".", "yaml">> }

\* the package directories an entry may hold under its node_modules: the
\* package pnpm installed there, and one with the name of the entry up to the
\* last "@"
ParsePkgNames(dirName) ==
  { PnpmRealName(dirName) } \cup
  (IF startsWith(dirName, <<"@">>) \/ lastIndexOf(dirName, "@") <= 0 THEN {}
   ELSE { SubSeq(dirName, 1, lastIndexOf(dirName, "@")) })

ParseEntries ==
  UNION { { PnpmEntry(n, TRUE, pkgName, Manifest("ok", v1, <<>>), 1000) :
              pkgName \in ParsePkgNames(n) } : n \in ParseEntryNames }
  \cup { PnpmEntry(n, FALSE, <<>>, NoManifest, 0) : n \in ParseEntryNames }

ParseProjectManifest == ProjectManifest("ok", <<a>>, <<scopedB>>, <<>>, <<>>)

InitParse ==
  /\ lockfiles = {"pnpm-lock.yaml"}
  /\ projectManifest = ParseProjectManifest
  /\ yarnIntegrity = FALSE
  /\ pnpmExists = TRUE
  /\ pnpmReadable = TRUE
  /\ pnpmDir \in Listings(ParseEntries, MaxStoreEntries)
  /\ nmDir = NmDirOf(<<>>)
  /\ sources = SrcDir(<<>>)
  /\ mode = "idle"
  /\ options = DefaultOptions
  /\ packages = <<>>
  /\ report = NoReport
  /\ removed = <<>>

\* pkg-analyzer, pkg-analyzer --tree, pkg-analyzer --tree <package>
AnalyzeParse ==
  \E opts \in { DefaultOptions }
              \cup { [DefaultOptions EXCEPT !.tree = TreeOption(start)] :
                       start \in {<<>>, a, scopedB} } : Run(opts)

NextParse == AnalyzeParse

SpecParse == InitParse /\ [][NextParse]_vars

-----------------------------------------------------------------------------
(* Properties of the entry-name parsers *)

\* the name an entry name stands for: for an entry that starts with "@", the
\* text before the first "+", "/", and the text between that "+" and the next
\* "@"; for any other entry the text before the last "@"; <<>> for an entry
\* that has no such "+" or "@"
StatedName(n) ==
  IF n[1] = "@"
    THEN LET plus == {p \in 1..Len(n) :
                        n[p] = "+" /\ \A q \in 1..(p - 1) : n[q] # "+"}
         IN IF plus = {} THEN <<>>
            ELSE LET p == CHOOSE x \in plus : TRUE
                     ats == {q \in (p + 1)..Len(n) :
                               n[q] = "@" /\ \A r \in (p + 1)..(q - 1) : n[r] # "@"}
                 IN IF ats = {} THEN <<>>
                    ELSE SubSeq(n, 1, p - 1) \o <<"/">>
                           \o SubSeq(n, p + 1, (CHOOSE x \in ats : TRUE) - 1)
    ELSE LET ats == {q \in 2..Len(n) :
                       n[q] = "@" /\ \A r \in (q + 1)..Len(n) : n[r] # "@"}
         IN IF ats = {} THEN <<>>
            ELSE SubSeq(n, 1, (CHOOSE x \in ats : TRUE) - 1)

\* the entries discovery makes a package of: directories that hold a readable
\* package under the name their entry name stands for
StoredPackages ==
  { i \in 1..Len(pnpmDir) :
      /\ pnpmDir[i].isDir
      /\ StatedName(pnpmDir[i].name) # <<>>
      /\ pnpmDir[i].pkgName = StatedName(pnpmDir[i].name)
      /\ pnpmDir[i].manifest.kind = "ok" }

\* C25: for a central-store entry @scope+name@version the recovered package
\* name is @scope/name (first "+", then the next "@" after it), for an
\* unscoped entry name@version it is the text before the last "@"; an entry
\* that does not match is skipped without error; and the parser of discovery
\* and the parser of findPkgPath recover the same name for every entry.
C25_EntryNames ==
  /\ \A i \in 1..Len(pnpmDir) :
       /\ pnpmEntryName(pnpmDir[i].name) = StatedName(pnpmDir[i].name)
       /\ findPkgPathEntryName(pnpmDir[i].name) = pnpmEntryName(pnpmDir[i].name)
  /\ Ran =>
       /\ mode \in {"noPackages", "sizes", "tree"}
       /\ Len(packages) = Cardinality(StoredPackages)
       /\ {packages[j].name : j \in 1..Len(packages)}
            = {StatedName(pnpmDir[i].name) : i \in StoredPackages}
  /\ (mode = "tree" /\ StartGiven) =>
       (report.tree # <<>> <=> InIndex(options.tree.name))

\* a store with an unscoped entry that has a peer suffix and holds a package
\* under the name before its last "@", next to an entry that is skipped: the
\* one package was discovered
C25_Witness ==
  /\ mode = "sizes"
  /\ \E i, j \in 1..Len(pnpmDir) :
       /\ i \in StoredPackages
       /\ Cardinality({k \in 1..Len(pnpmDir[i].name) : pnpmDir[i].name[k] = "@"}) > 1
       /\ pnpmDir[j].isDir /\ StatedName(pnpmDir[j].name) = <<>>
  /\ Len(packages) = 1

-----------------------------------------------------------------------------
(* Deep and cyclic installations: the projects and the runs of SpecDeep *)

deep == <<"deep">>

\* bound of the deep projects: the deepest nested node_modules, the top one
\* being level 0
MaxLevel == 12

LevelVersion(k) == << ToString(k) >>

\* node_modules at level k of a chain that goes down to level last: it holds
\* one copy of deep, version k, whose own node_modules is level k + 1
RECURSIVE ChainEntry(_, _)
ChainEntry(k, last) ==
  PkgEntry(deep, Manifest("ok", LevelVersion(k), <<deep>>), 100 + k,
           IF k = last THEN NoNmDir
           ELSE NmDirOf(<< ChainEntry(k + 1, last) >>))

\* declared dependencies of pkgA and of pkgB: none, themselves, each other
DeepDepsOfA == { <<>>, <<pkgA>>, <<pkgB>>, <<pkgB, deep>> }

DeepDepsOfB == { <<>>, <<pkgA>>, <<pkgB, pkgA>> }

DeepDir(depsA, depsB, last) ==
  NmDirOf(<< PkgEntry(pkgA, Manifest("ok", v1, depsA), 400, NoNmDir),
             PkgEntry(pkgB, Manifest("ok", v1, depsB), 200, NoNmDir),
             ChainEntry(0, last) >>)

\* --depth values: small ones, the default, and one past every path
DeepDepths == {0, 1, DefaultDepth, 1000}

InitDeep ==
  /\ lockfiles = {}
  /\ projectManifest = TreeProjectManifest
  /\ yarnIntegrity = FALSE
  /\ pnpmExists = FALSE
  /\ pnpmReadable = TRUE
  /\ pnpmDir = <<>>
  /\ \E depsA \in DeepDepsOfA, depsB \in DeepDepsOfB, last \in 0..MaxLevel :
       nmDir = DeepDir(depsA, depsB, last)
  /\ sources = SrcDir(<<>>)
  /\ mode = "idle"
  /\ options = DefaultOptions
  /\ packages = <<>>
  /\ report = NoReport
  /\ removed = <<>>

\* pkg-analyzer, pkg-analyzer --tree [package] --depth <n>
AnalyzeDeep ==
  \/ Run(DefaultOptions)
  \/ \E start \in {<<>>, pkgA, deep}, depth \in DeepDepths :
       Run([DefaultOptions EXCEPT !.tree = TreeOption(start), !.depth = depth])

NextDeep == AnalyzeDeep

SpecDeep == InitDeep /\ [][NextDeep]_vars

-----------------------------------------------------------------------------
(* Properties of the recursive walks *)

\* the levels of the node_modules directories of the chain under nm, nm
\* itself being level k
RECURSIVE LevelsOf(_, _)
LevelsOf(nm, k) ==
  IF ~nm.exists THEN {}
  ELSE {k} \cup UNION { LevelsOf(nm.entries[i].nm, k + 1) :
                          i \in 1..Len(nm.entries) }

\* the versions of the discovered copies of deep
DeepVersions == { packages[i].version : i \in {j \in 1..Len(packages) :
                                                 packages[j].name = deep} }

IndexNames == { packages[i].name : i \in 1..Len(packages) }

\* C26: every recursive walk terminates: the flat/nested discovery walk never
\* scans a node_modules directory nested more than 10 levels below the top
\* one (and scans every one down to level 10), and buildTree ends with a
\* finite tree on every package index, cyclic declared dependencies included:
\* no path of it repeats a name, so none is longer than the index has names.
C26_WalksEnd ==
  Ran =>
    /\ mode \in {"sizes", "tree"}
    /\ DeepVersions = { LevelVersion(k) : k \in LevelsOf(nmDir, 0) \cap 0..10 }
    /\ mode = "tree" =>
         \A p \in TreePaths : NoRepeat(p) /\ Len(p) <= Cardinality(IndexNames)

\* a chain that goes below level 10, walked down to level 10 only, and a tree
\* over pkgA <-> pkgB and deep -> deep with a depth limit that cuts nothing
C26_Witness ==
  /\ mode = "tree" /\ options.depth = 1000 /\ options.tree.name = <<>>
  /\ 11 \in LevelsOf(nmDir, 0)
  /\ LevelVersion(10) \in DeepVersions
  /\ LevelVersion(11) \notin DeepVersions
  /\ <<pkgA, pkgB>> \in TreePaths
  /\ <<pkgB, pkgA>> \in TreePaths

-----------------------------------------------------------------------------
(* Excluded directories: the source trees and the runs of SpecIgnore *)

\* directory names: the seven excluded ones, and three that are not ("Dist"
\* differs from "dist" in case)
IgnoreDirNames ==
  { <<"node_modules">>, <<".", "git">>, <<"dist">>, <<"build">>,
    <<"coverage">>, <<".", "next">>, <<".", "nuxt">>,
    <<"src">>, <<"Dist">>, <<"lib">> }

\* file names: x.ts, x.vue, x.d.ts, x.md, x.json, .ts and ts
IgnoreFileNames ==
  { <<"x", ".", "ts">>, <<"x", ".", "vue">>, <<"x", ".", "d", ".", "ts">>,
    <<"x", ".", "md">>, <<"x", ".", "json">>, <<".", "ts">>, <<"ts">> }

\* the one file that imports a: in a directory of the root, or one level
\* further down
IgnoreTrees ==
  { SrcDir(<< SrcFile(<<"index", ".", "ts">>, << <<".", "/", "a">> >>),
              SrcSubdir(d1, SrcDir(<< SrcFile(f, << a >>) >>)) >>) :
      d1 \in IgnoreDirNames, f \in IgnoreFileNames }
  \cup
  { SrcDir(<< SrcSubdir(d1, SrcDir(<< SrcSubdir(d2,
                SrcDir(<< SrcFile(f, << a >>) >>)) >>)) >>) :
      d1 \in IgnoreDirNames, d2 \in IgnoreDirNames, f \in IgnoreFileNames }

IgnoreManifest == ProjectManifest("ok", <<a>>, <<>>, <<>>, <<>>)

InitIgnore ==
  /\ projectManifest = IgnoreManifest
  /\ lockfiles = {}
  /\ yarnIntegrity = FALSE
  /\ pnpmExists = FALSE
  /\ pnpmReadable = TRUE
  /\ pnpmDir = <<>>
  /\ nmDir = NmDirOf(<< PkgEntry(a, Manifest("ok", v1, <<>>), 1000, NoNmDir) >>)
  /\ sources \in IgnoreTrees
  /\ mode = "idle"
  /\ options = DefaultOptions
  /\ packages = <<>>
  /\ report = NoReport
  /\ removed = <<>>

NextIgnore == AnalyzeUnused

SpecIgnore == InitIgnore /\ [][NextIgnore]_vars

-----------------------------------------------------------------------------
(* Properties of the excluded directories *)

\* every file under dir, with the names of the directories on the way to it
RECURSIVE FilesUnder(_, _)
FilesUnder(dir, above) ==
  UNION { IF dir.entries[i].kind = "file"
            THEN { [file |-> dir.entries[i], path |-> above] }
          ELSE IF dir.entries[i].kind = "dir"
            THEN FilesUnder(dir.entries[i].dir, Append(above, dir.entries[i].name))
          ELSE {} : i \in 1..Len(dir.entries) }

ExcludedDir(name) ==
  name \in { <<"node_modules">>, <<".", "git">>, <<"dist">>, <<"build">>,
             <<"coverage">>, <<".", "next">>, <<".", "nuxt">> }

\* the name ends in "." and an extension of the list, after at least one
\* character
HasSourceExtension(name) ==
  /\ Len(name) >= 3
  /\ SubSeq(name, Len(name) - 1, Len(name)) \in sourceExtensions

\* the files whose imports count: a source extension, and no excluded
\* directory on the way from the project root
FilesRead ==
  { f \in FilesUnder(sources, <<>>) :
      /\ HasSourceExtension(f.file.name)
      /\ \A i \in 1..Len(f.path) : ~ExcludedDir(f.path[i]) }

\* C27: scanImports never descends into a directory named node_modules, .git,
\* dist, build, coverage, .next or .nuxt at any depth below the project root,
\* and reads only files whose extension is in the source-extension list; so
\* an import that occurs only inside an excluded directory never marks a
\* dependency as used.
C27_ExcludedDirsNotScanned ==
  /\ a \in Range(scanImports)
       <=> \E f \in FilesRead : a \in Range(f.file.specifiers)
  /\ mode = "unused" =>
       (Reported(a) <=> ~\E f \in FilesRead : a \in Range(f.file.specifiers))

\* a is imported by src/dist/x.ts alone, and is reported unused
C27_Witness ==
  /\ mode = "unused"
  /\ \E f \in FilesUnder(sources, <<>>) :
       /\ f.path = << <<"src">>, <<"dist">> >>
       /\ f.file.name = <<"x", ".", "ts">>
       /\ a \in Range(f.file.specifiers)
  /\ Reported(a)

-----------------------------------------------------------------------------
(* Properties of the layout the two passes assume *)

\* discovery read the package index from the central store
DiscoveredThroughStore == detectPackageManager = "pnpm"

\* C28: discovery and tree building always treat a project as the same
\* layout: buildTree resolves package directories through the central store
\* (node_modules/.pnpm) exactly when getPackagesFromNodeModules discovered the
\* package index through the central store, for every combination of
\* lockfiles and marker directories.
C28_SameLayout ==
  mode = "tree" => (isPnpm <=> DiscoveredThroughStore)

\* what follows from the difference: a discovered package that is a start
\* package or a declared dependency of the project, and has no tree
C28_DiscoveredHasTree ==
  (mode = "tree" /\ options.tree.name = a /\ Installed(a))
    => report.tree # <<>>

-----------------------------------------------------------------------------
(* Properties of the copies behind a tree node *)

\* the installed copy whose package.json gives a node its children: the
\* directory node_modules/<name>, or in the central store the first entry
\* that stands for the name
ChildrenCopy(name) ==
  IF isPnpm
    THEN LET hits == {i \in 1..Len(pnpmDir) : StatedName(pnpmDir[i].name) = name}
         IN pnpmDir[CHOOSE i \in hits : \A j \in hits : i <= j]
    ELSE flatLookup(name)[1]

CopyVersion(copy) ==
  IF copy.manifest.kind # "ok" THEN <<>>
  ELSE IF copy.manifest.version = <<>> THEN unknown
  ELSE copy.manifest.version

\* C29: when several installed copies share a name, the version and size
\* shown in a tree node belong to the same installed copy whose manifest
\* supplied that node's children.
C29_NodeOfOneCopy ==
  mode = "tree" =>
    \A n \in TreeNodes :
      /\ n.node.version = CopyVersion(ChildrenCopy(n.node.name))
      /\ n.node.size = ChildrenCopy(n.node.name).size

\* what holds: version and size are those of the last package of that name in
\* the index, the children those of the copy findPkgPath finds
C29_NodeOfLastIndexed ==
  mode = "tree" =>
    \A n \in TreeNodes :
      LET pkg == packageMapGet(packages, n.node.name)[1]
      IN /\ n.node.version = pkg.version
         /\ n.node.size = pkg.size
         /\ ChildNames(n.node) \subseteq
              Range(ChildrenCopy(n.node.name).manifest.dependencies)

-----------------------------------------------------------------------------
(* Properties of the records of findUnused *)

\* C30: the result of findUnused contains at most one record per dependency
\* name, and each record's type equals the classification getPackageType
\* gives that name; a name declared in both the production and the
\* development set is reported at most once, as prod.
C30_OneRecordPerName ==
  mode = "unused" =>
    /\ \A i, j \in 1..Len(report.unused) :
         report.unused[i].name = report.unused[j].name => i = j
    /\ \A i \in 1..Len(report.unused) :
         report.unused[i].type
           = getPackageType(report.unused[i].name,
                            getProjectDeps(projectManifest))

\* what holds: at most one record per name and section, the type being the
\* section (prod or dev) the name was read from
C30_OneRecordPerDeclaration ==
  mode = "unused" =>
    /\ \A i, j \in 1..Len(report.unused) :
         ( /\ report.unused[i].name = report.unused[j].name
           /\ report.unused[i].type = report.unused[j].type ) => i = j
    /\ \A i \in 1..Len(report.unused) :
         \/ /\ report.unused[i].type = "prod"
            /\ report.unused[i].name \in Declared("dependencies")
         \/ /\ report.unused[i].type = "dev"
            /\ report.unused[i].name \in Declared("devDependencies")

=============================================================================
